---- MODULE Spec2Model ----
(***************************************************************************)
(* A model of SchemaForgeAI's SQL pipeline: SchemaParser (DDL parser and   *)
(* implicit-relationship inference), SQLSyntaxMapper (dialect syntax       *)
(* table) and DiagramService (the live diagram and its SQL export).        *)
(* SQL text is modelled as strings, character by character, so that the    *)
(* regular expressions and substring tests of the source are computed the  *)
(* way the source computes them.                                           *)
(***************************************************************************)
EXTENDS Integers, Sequences, FiniteSets, TLC

(***************************************************************************)
(* State                                                                   *)
(***************************************************************************)
VARIABLES
  script,      \* the statements of the input under test (indices of Statements)
  sql,         \* the argument of the last parseSQL call
  declared,    \* the tables and relationships of the last parseSQL call
               \* when its while loop ended, before inference
  parsed,      \* the ParsedSchema the last parseSQL call returned
  calls,       \* the number of parseSQL calls made
  firstCall,   \* the argument and the result of the first parseSQL call
  splitInput,  \* the columnDefs given to splitColumnDefinitions
  splitResult, \* what splitColumnDefinitions returned (Undefined before the call)
  diagram,     \* DiagramService.diagramData
  loaded,      \* the text whose parse updateFromSchema last loaded
  exported,    \* the last text exportSchemaAsSQL returned, its provider and
               \* the text the exported diagram was loaded from
  mapped,      \* the arguments and the result of the last mapDataType call
  selection,   \* DiagramService.selectedTableName, and the value last
               \* delivered to the selection listeners
  imported,    \* the argument and the outcome of the last importFromSQL call
  database,    \* DatabaseService: configs, activeConfig, providers, and what
               \* the last getProvider or getActiveProvider call returned
  migration,   \* MigrationService.migrationHistory, and the clock (Date.now())
  deployment   \* the last call of DeploymentService.deploySchema,
               \* deployToMultipleEnvironments or
               \* MigrationService.rollbackLastMigration: its arguments, the
               \* history it started from, its results and its provider
               \* calls; count is the number of these calls made so far

\* the state of the services other than the parser, the mapper and the diagram
serviceVars == <<imported, database, migration, deployment>>

vars == <<script, sql, declared, parsed, calls, firstCall, splitInput, splitResult,
          diagram, loaded, exported, mapped, selection, serviceVars>>


(***************************************************************************)
(* JavaScript string primitives used by the source.                        *)
(***************************************************************************)
Lowers == "abcdefghijklmnopqrstuvwxyz"
Uppers == "ABCDEFGHIJKLMNOPQRSTUVWXYZ"
Digits == "0123456789"

CharAt(s, i) == SubSeq(s, i, i)

CharsOf(s) == {CharAt(s, i) : i \in 1..Len(s)}

UpperOf == [c \in CharsOf(Lowers) |->
              CharAt(Uppers, CHOOSE i \in 1..Len(Lowers) : CharAt(Lowers, i) = c)]

LowerOf == [c \in CharsOf(Uppers) |->
              CharAt(Lowers, CHOOSE i \in 1..Len(Uppers) : CharAt(Uppers, i) = c)]

SpaceChars == {" ", "\n", "\t", "\r"}

WordChars == CharsOf(Lowers) \cup CharsOf(Uppers) \cup CharsOf(Digits) \cup {"_"}

\* \s of the regular expressions (the white space the inputs can hold)
IsSpace(c) == c \in SpaceChars

\* line terminators: '.' does not match them and '$' (flag m) stops before them
IsLineEnd(c) == c \in {"\n", "\r"}

\* \w of the regular expressions
IsWord(c) == c \in WordChars

\* \d of the regular expressions
IsDigit(c) == c \in CharsOf(Digits)

\* case conversion, by halves (the characters are converted one by one)
RECURSIVE toUpperCase(_)
toUpperCase(s) ==
  IF Len(s) = 0 THEN ""
  ELSE IF Len(s) = 1 THEN (IF s \in DOMAIN UpperOf THEN UpperOf[s] ELSE s)
  ELSE toUpperCase(SubSeq(s, 1, Len(s) \div 2))
       \o toUpperCase(SubSeq(s, Len(s) \div 2 + 1, Len(s)))

RECURSIVE toLowerCase(_)
toLowerCase(s) ==
  IF Len(s) = 0 THEN ""
  ELSE IF Len(s) = 1 THEN (IF s \in DOMAIN LowerOf THEN LowerOf[s] ELSE s)
  ELSE toLowerCase(SubSeq(s, 1, Len(s) \div 2))
       \o toLowerCase(SubSeq(s, Len(s) \div 2 + 1, Len(s)))

\* the characters of s at the indices of lo..hi that are in keep, in order
RECURSIVE pick(_, _, _, _)
pick(s, keep, lo, hi) ==
  IF lo > hi THEN ""
  ELSE IF \A i \in lo..hi : i \in keep THEN SubSeq(s, lo, hi)
  ELSE IF lo = hi THEN ""
  ELSE pick(s, keep, lo, (lo + hi) \div 2) \o pick(s, keep, (lo + hi) \div 2 + 1, hi)

\* the least (greatest) index of a set of indices, 0 when there is none
First(indices) ==
  IF indices = {} THEN 0 ELSE CHOOSE i \in indices : \A k \in indices : i <= k

Last(indices) ==
  IF indices = {} THEN 0 ELSE CHOOSE i \in indices : \A k \in indices : i >= k

\* the k-th smallest element of a set of numbers
Nth(set, k) == CHOOSE i \in set : Cardinality({j \in set : j < i}) = k - 1

\* s.startsWith(p, i) with 1-based i
startsWithAt(s, p, i) ==
  /\ i >= 1
  /\ i + Len(p) - 1 <= Len(s)
  /\ SubSeq(s, i, i + Len(p) - 1) = p

startsWith(s, p) == startsWithAt(s, p, 1)

endsWith(s, p) == startsWithAt(s, p, Len(s) - Len(p) + 1)

\* s.indexOf(p, i), 1-based; 0 when p does not occur at or after i
indexOfFrom(s, p, i) == First({j \in i..Len(s) : startsWithAt(s, p, j)})

includes(s, p) == p = "" \/ indexOfFrom(s, p, 1) # 0

\* s.slice(i) with 1-based i
sliceFrom(s, i) == IF i > Len(s) THEN "" ELSE SubSeq(s, i, Len(s))

\* the first index at or after i that is past the run of characters
\* satisfying Class (Len(s) + 1 when the run reaches the end)
SkipWhile(s, i, Class(_)) ==
  CHOOSE j \in i..(Len(s) + 1) :
    /\ \A k \in i..(j - 1) : Class(CharAt(s, k))
    /\ j = Len(s) + 1 \/ ~Class(CharAt(s, j))

\* s without the characters before index from and after index to
between(s, from, to) == IF from = 0 THEN "" ELSE SubSeq(s, from, to)

trimmed(s, keep) == between(s, First(keep), Last(keep))

trim(s) == trimmed(s, {i \in 1..Len(s) : ~IsSpace(CharAt(s, i))})

\* s without the Len(p) characters at index at (s itself when at = 0)
removeAt(s, p, at) ==
  IF at = 0 THEN s ELSE SubSeq(s, 1, at - 1) \o sliceFrom(s, at + Len(p))

\* s.replace(p, '') : removes the first occurrence of p only
replaceFirst(s, p) == removeAt(s, p, indexOfFrom(s, p, 1))

\* s.slice(0, -1)
dropLast(s) == IF s = "" THEN "" ELSE SubSeq(s, 1, Len(s) - 1)

\* the words of s that start at the indices of starts, in order
wordsAt(s, starts) ==
  [k \in 1..Cardinality(starts) |->
     SubSeq(s, Nth(starts, k),
            SkipWhile(s, Nth(starts, k), LAMBDA c : ~IsSpace(c)) - 1)]

\* s.split(/\s+/): the words of s, with an empty first (last) part when s
\* begins (ends) with white space
splitSpaces(s) ==
  (IF s = "" \/ IsSpace(CharAt(s, 1)) THEN <<"">> ELSE <<>>)
  \o wordsAt(s, {i \in 1..Len(s) :
                   ~IsSpace(CharAt(s, i)) /\ (i = 1 \/ IsSpace(CharAt(s, i - 1)))})
  \o (IF s # "" /\ IsSpace(CharAt(s, Len(s))) THEN <<"">> ELSE <<>>)

\* s.split('(')[0]
beforeParen(s) == SubSeq(s, 1, First({i \in 1..Len(s) : CharAt(s, i) = "("} \cup {Len(s) + 1}) - 1)

\* Array.prototype.join
RECURSIVE join(_, _)
join(strings, separator) ==
  IF Len(strings) = 0 THEN ""
  ELSE IF Len(strings) = 1 THEN strings[1]
  ELSE join(SubSeq(strings, 1, Len(strings) \div 2), separator) \o separator
       \o join(SubSeq(strings, Len(strings) \div 2 + 1, Len(strings)), separator)

\* s.split(separator): the parts of s between the occurrences of separator,
\* in order
SplitOn(s, separator) ==
  LET cuts == {i \in 1..Len(s) : startsWithAt(s, separator, i)}
      starts == {1} \cup {i + Len(separator) : i \in cuts}
  IN  [k \in 1..Cardinality(starts) |->
         LET from == Nth(starts, k)
             cut == First({i \in cuts : i >= from})
         IN  IF cut = 0 THEN sliceFrom(s, from) ELSE SubSeq(s, from, cut - 1)]

\* optional values: undefined is the empty sequence
Undefined == <<>>
Some(x) == <<x>>

(***************************************************************************)
(* SchemaParser                                                            *)
(***************************************************************************)
TYPE_MAP ==
  [SERIAL |-> "int8", BIGSERIAL |-> "int8", INTEGER |-> "int8", INT |-> "int8",
   BIGINT |-> "int8", VARCHAR |-> "text", CHAR |-> "text", TEXT |-> "text",
   BOOLEAN |-> "boolean", BOOL |-> "boolean", TIMESTAMP |-> "timestamp",
   TIMESTAMPTZ |-> "timestamp", DATE |-> "timestamp", TIME |-> "timestamp",
   DECIMAL |-> "numeric", NUMERIC |-> "numeric", REAL |-> "numeric",
   DOUBLE |-> "numeric", FLOAT |-> "numeric", UUID |-> "uuid", JSON |-> "json",
   JSONB |-> "json"]

\* typeMap[baseType] || 'text'
typeOf(baseType) == IF baseType \in DOMAIN TYPE_MAP THEN TYPE_MAP[baseType] ELSE "text"

normalizeType(type) == typeOf(beforeParen(type))

\* the indices of s that no "--" of dashes precedes on their line
outsideComments(s, dashes) ==
  {i \in 1..Len(s) :
     ~\E j \in dashes : j <= i /\ \A k \in j..i : ~IsLineEnd(CharAt(s, k))}

\* sql.replace(/--.*$/gm, ''): a character is removed when a "--" precedes it
\* (or starts at it) on its line
stripComments(s) ==
  pick(s, outsideComments(s, {j \in 1..Len(s) : startsWithAt(s, "--", j)}), 1, Len(s))

\* every white-space character becomes a space
RECURSIVE blankSpaces(_)
blankSpaces(s) ==
  IF \A i \in 1..Len(s) : ~IsSpace(CharAt(s, i)) \/ CharAt(s, i) = " " THEN s
  ELSE IF Len(s) = 1 THEN " "
  ELSE blankSpaces(SubSeq(s, 1, Len(s) \div 2))
       \o blankSpaces(SubSeq(s, Len(s) \div 2 + 1, Len(s)))

\* .replace(/\s+/g, ' '): of every run of white space one space is kept
collapseSpaces(s) ==
  pick(blankSpaces(s),
       {i \in 1..Len(s) : ~IsSpace(CharAt(s, i)) \/ i = 1 \/ ~IsSpace(CharAt(s, i - 1))},
       1, Len(s))

cleanSQL(text) == trim(collapseSpaces(stripComments(text)))

\* what exec() returns when nothing matches
NoMatch == [ok |-> FALSE, name |-> "", body |-> "", lastIndex |-> 0]

\* /CREATE\s+TABLE\s+(\w+)\s*\((.*?)\);/gi tried at index i of s; up is s in
\* upper case (flag i). The lazy body ends at the first ");" after the "(".
matchCreateTableAt(s, up, i) ==
  LET a == i + 6
      b == SkipWhile(up, a, IsSpace)
      c == b + 5
      d == SkipWhile(up, c, IsSpace)
      e == SkipWhile(up, d, IsWord)
      f == SkipWhile(up, e, IsSpace)
      k == indexOfFrom(s, ");", f + 1)
  IN  IF /\ startsWithAt(up, "CREATE", i)
         /\ b > a
         /\ startsWithAt(up, "TABLE", b)
         /\ d > c
         /\ e > d
         /\ f <= Len(s)
         /\ CharAt(s, f) = "("
         /\ k # 0
      THEN [ok |-> TRUE, name |-> SubSeq(s, d, e - 1),
            body |-> SubSeq(s, f + 1, k - 1), lastIndex |-> k + 2]
      ELSE NoMatch

\* the match at index at, null when at = 0
matchCreateTable(s, up, at) == IF at = 0 THEN NoMatch ELSE matchCreateTableAt(s, up, at)

\* createTableRegex.exec(cleanSQL): the leftmost match at or after lastIndex
exec(s, up, lastIndex) ==
  matchCreateTable(s, up, First({i \in lastIndex..Len(s) : startsWithAt(up, "CREATE", i)
                                                          /\ matchCreateTableAt(s, up, i).ok}))

\* /REFERENCES\s+(\w+)\s*\(\s*(\w+)\s*\)/ tried at index i
matchReferencesAt(s, i) ==
  LET a == i + 10
      b == SkipWhile(s, a, IsSpace)
      c == SkipWhile(s, b, IsWord)
      d == SkipWhile(s, c, IsSpace)
      e == SkipWhile(s, d + 1, IsSpace)
      f == SkipWhile(s, e, IsWord)
      g == SkipWhile(s, f, IsSpace)
  IN  IF /\ startsWithAt(s, "REFERENCES", i)
         /\ b > a
         /\ c > b
         /\ d <= Len(s)
         /\ CharAt(s, d) = "("
         /\ f > e
         /\ g <= Len(s)
         /\ CharAt(s, g) = ")"
      THEN Some([table |-> SubSeq(s, b, c - 1), column |-> SubSeq(s, e, f - 1)])
      ELSE Undefined

matchReferences(s, at) == IF at = 0 THEN Undefined ELSE matchReferencesAt(s, at)

\* String.match without flag g: the leftmost match
referencesMatch(s) ==
  matchReferences(s, First({i \in 1..Len(s) : startsWithAt(s, "REFERENCES", i)
                                              /\ matchReferencesAt(s, i) # Undefined}))

\* /DEFAULT\s+([^,\s]+)/ tried at index i
matchDefaultAt(s, i) ==
  LET a == i + 7
      b == SkipWhile(s, a, IsSpace)
      c == SkipWhile(s, b, LAMBDA ch : ch # "," /\ ~IsSpace(ch))
  IN  IF startsWithAt(s, "DEFAULT", i) /\ b > a /\ c > b
      THEN Some(SubSeq(s, b, c - 1))
      ELSE Undefined

matchDefault(s, at) == IF at = 0 THEN Undefined ELSE matchDefaultAt(s, at)

defaultMatch(s) ==
  matchDefault(s, First({i \in 1..Len(s) : startsWithAt(s, "DEFAULT", i)
                                           /\ matchDefaultAt(s, i) # Undefined}))

\* parenCount when the loop reaches index i
parenCountAt(columnDefs, i) ==
  Cardinality({k \in 1..(i - 1) : CharAt(columnDefs, k) = "("})
  - Cardinality({k \in 1..(i - 1) : CharAt(columnDefs, k) = ")"})

\* the push after the loop
pushCurrent(columns, current) ==
  IF current # "" THEN Append(columns, current) ELSE columns

\* The loop of splitColumnDefinitions, one clause at a time: `current` holds
\* the characters from index start; it is pushed at the first comma met with
\* parenCount = 0 and a non-blank current (a comma met with a blank current
\* is appended to current like any other character).
RECURSIVE splitLoop(_, _, _)
splitAt(columnDefs, start, columns, cut) ==
  IF cut = 0 THEN pushCurrent(columns, trim(sliceFrom(columnDefs, start)))
  ELSE splitLoop(columnDefs, cut + 1,
                 Append(columns, trim(SubSeq(columnDefs, start, cut - 1))))

splitLoop(columnDefs, start, columns) ==
  splitAt(columnDefs, start, columns,
          First({i \in start..Len(columnDefs) :
                   /\ CharAt(columnDefs, i) = ","
                   /\ parenCountAt(columnDefs, i) = 0
                   /\ trim(SubSeq(columnDefs, start, i - 1)) # ""}))

splitColumnDefinitions(columnDefs) == splitLoop(columnDefs, 1, <<>>)

\* the type token, after normalizeType, is compared with the raw spellings
IsSerialType(type) == type = "SERIAL" \/ type = "BIGSERIAL"

\* foreignKey of a referencesMatch
foreignKeyOf(ref) ==
  IF ref = Undefined THEN Undefined
  ELSE Some([table |-> toLowerCase(ref[1].table), column |-> toLowerCase(ref[1].column)])

\* the field parseColumnDefinition returns
fieldOf(name, type, upperDef) ==
  [name |-> name,
   type |-> type,
   nullable |-> ~includes(upperDef, "NOT NULL") /\ ~IsSerialType(type),
   primaryKey |-> includes(upperDef, "PRIMARY KEY") \/ IsSerialType(type),
   foreignKey |-> foreignKeyOf(referencesMatch(upperDef)),
   defaultValue |-> defaultMatch(upperDef)]

\* parseColumnDefinition without the skip of the table-level constraints: a
\* variant the property of C22 tells from the source
columnOfAny(parts, upperDef) ==
  IF Len(parts) < 2 THEN Undefined
  ELSE Some(fieldOf(toLowerCase(parts[1]), normalizeType(toUpperCase(parts[2])),
                    upperDef))

columnOf(parts, upperDef) ==
  IF \/ startsWith(upperDef, "CONSTRAINT")
     \/ startsWith(upperDef, "PRIMARY KEY")
     \/ startsWith(upperDef, "FOREIGN KEY")
  THEN Undefined
  ELSE IF Len(parts) < 2 THEN Undefined
  ELSE Some(fieldOf(toLowerCase(parts[1]), normalizeType(toUpperCase(parts[2])),
                    upperDef))

\* null is Undefined, a field is Some(field)
parseColumnDefinition(columnDef) ==
  columnOf(splitSpaces(columnDef), toUpperCase(columnDef))

\* fields.push(field) and relationships.push(...) of parseColumnDefinitions
pushField(columns, field) ==
  IF field = Undefined THEN columns
  ELSE [fields |-> Append(columns.fields, field[1]),
        relationships |->
          IF field[1].foreignKey # Undefined
          THEN Append(columns.relationships,
                      [fromField |-> field[1].name,
                       toTable |-> field[1].foreignKey[1].table,
                       toField |-> field[1].foreignKey[1].column])
          ELSE columns.relationships]

RECURSIVE columnsLoop(_, _, _)
columnsLoop(columns, i, result) ==
  IF i > Len(columns) THEN result
  ELSE columnsLoop(columns, i + 1,
                   pushField(result, parseColumnDefinition(trim(columns[i]))))

parseColumnDefinitions(columnDefs) ==
  columnsLoop(splitColumnDefinitions(columnDefs), 1,
              [fields |-> <<>>, relationships |-> <<>>])

hasPrimaryKey(table) == \E j \in 1..Len(table.fields) : table.fields[j].primaryKey

\* table.fields.find(f => f.primaryKey).name
primaryKeyName(table) ==
  table.fields[First({j \in 1..Len(table.fields) : table.fields[j].primaryKey})].name

\* the keys of tableMap / tableNameVariations in insertion order: the names of
\* the tables that have a primary-key field, each once, at its first place
RECURSIVE mapKeys(_, _, _)
mapKeys(tables, i, keys) ==
  IF i > Len(tables) THEN keys
  ELSE mapKeys(tables, i + 1,
         IF /\ hasPrimaryKey(tables[i])
            /\ \A k \in 1..Len(keys) : keys[k] # tables[i].name
         THEN Append(keys, tables[i].name)
         ELSE keys)

\* tableMap.get(tableName): a later set() of the same key replaces the value
tableMapGet(tables, tableName) ==
  primaryKeyName(tables[Last({i \in 1..Len(tables) :
                                tables[i].name = tableName /\ hasPrimaryKey(tables[i])})])

nameVariations(tableName) ==
  <<tableName, dropLast(tableName), tableName \o "_id", dropLast(tableName) \o "_id">>

\* the referenced-table stem of a candidate field
potentialTableName(fieldName) == replaceFirst(fieldName, "_id")

\* variations.some(...)
someVariation(variations, potential, fieldName) ==
  \E v \in 1..Len(variations) :
    \/ variations[v] = potential
    \/ variations[v] = potential \o "s"
    \/ variations[v] = fieldName

\* a matching that accepts the table's own name only: a variant the
\* end-to-end scenario of C8 tells from the source
variationExact(tableName, fieldName) == tableName = potentialTableName(fieldName)

variationMatches(tableName, fieldName) ==
  someVariation(nameVariations(tableName), potentialTableName(fieldName), fieldName)

\* relationships.find(...) of detectImplicitRelationships
existingRel(relationships, fromTable, fromField, toTable) ==
  \E r \in 1..Len(relationships) :
    /\ relationships[r].fromTable = fromTable
    /\ relationships[r].fromField = fromField
    /\ relationships[r].toTable = toTable

\* relationships.unshift(...) in place of push: a variant the property of C21
\* tells from the source
unshiftImplicit(schema, i, j, tableName, pkField) ==
  [tables |-> [schema.tables EXCEPT ![i].fields[j].foreignKey =
                 Some([table |-> tableName, column |-> pkField])],
   relationships |->
     <<[fromTable |-> schema.tables[i].name,
        fromField |-> schema.tables[i].fields[j].name,
        toTable |-> tableName, toField |-> pkField]>>
     \o schema.relationships]

\* relationships.push(...) and field.foreignKey = ... for field j of table i
pushImplicit(schema, i, j, tableName, pkField) ==
  [tables |-> [schema.tables EXCEPT ![i].fields[j].foreignKey =
                 Some([table |-> tableName, column |-> pkField])],
   relationships |->
     Append(schema.relationships,
            [fromTable |-> schema.tables[i].name,
             fromField |-> schema.tables[i].fields[j].name,
             toTable |-> tableName, toField |-> pkField])]

\* the body of the for loop for the first table whose variations match:
\* key is the index of that table in keys, 0 when no table matches
detectMatch(parsedTables, keys, schema, i, j, key) ==
  IF key = 0 THEN schema
  ELSE IF existingRel(schema.relationships, schema.tables[i].name,
                      schema.tables[i].fields[j].name, keys[key])
  THEN schema
  ELSE pushImplicit(schema, i, j, keys[key], tableMapGet(parsedTables, keys[key]))

\* fromTable.fields.forEach without the skip of the fields that already have
\* a foreignKey: a variant the property of C6 tells from the source
detectFieldAgain(parsedTables, keys, schema, i, j, field) ==
  IF ~(endsWith(field.name, "_id") /\ ~field.primaryKey) THEN schema
  ELSE detectMatch(parsedTables, keys, schema, i, j,
                   First({k \in 1..Len(keys) : variationMatches(keys[k], field.name)}))

\* the loop over tableNameVariations kept running after a match, so that the
\* last matching table is taken: a variant the property of C20 tells from
\* the source
detectFieldLast(parsedTables, keys, schema, i, j, field) ==
  IF field.foreignKey # Undefined THEN schema
  ELSE IF ~(endsWith(field.name, "_id") /\ ~field.primaryKey) THEN schema
  ELSE detectMatch(parsedTables, keys, schema, i, j,
                   Last({k \in 1..Len(keys) : variationMatches(keys[k], field.name)}))

\* the body of fromTable.fields.forEach for field j of table i
detectField(parsedTables, keys, schema, i, j, field) ==
  IF field.foreignKey # Undefined THEN schema
  ELSE IF ~(endsWith(field.name, "_id") /\ ~field.primaryKey) THEN schema
  ELSE detectMatch(parsedTables, keys, schema, i, j,
                   First({k \in 1..Len(keys) : variationMatches(keys[k], field.name)}))

\* tables.forEach(fromTable => fromTable.fields.forEach(...)), from field j of
\* table i on; parsedTables are the tables as the while loop left them
RECURSIVE detectLoop(_, _, _, _, _)
detectLoop(parsedTables, keys, schema, i, j) ==
  IF i > Len(schema.tables) THEN schema
  ELSE IF j > Len(schema.tables[i].fields)
  THEN detectLoop(parsedTables, keys, schema, i + 1, 1)
  ELSE detectLoop(parsedTables, keys,
                  detectField(parsedTables, keys, schema, i, j,
                              schema.tables[i].fields[j]),
                  i, j + 1)

detectImplicitRelationships(tables, relationships) ==
  detectLoop(tables, mapKeys(tables, 1, <<>>),
             [tables |-> tables, relationships |-> relationships], 1, 1)

\* the relationships of one table, with its name as fromTable
explicitRelationships(tableName, rels) ==
  [r \in 1..Len(rels) |->
     [fromTable |-> tableName, fromField |-> rels[r].fromField,
      toTable |-> rels[r].toTable, toField |-> rels[r].toField]]

\* the successive createTableRegex.exec(cleanSQL) results of the while loop
\* of parseSQL: lastIndex is the index the next search starts at
RECURSIVE execLoop(_, _, _, _)
execNext(s, up, matches, match) ==
  IF ~match.ok THEN matches
  ELSE execLoop(s, up, match.lastIndex, Append(matches, match))

execLoop(s, up, lastIndex, matches) == execNext(s, up, matches, exec(s, up, lastIndex))

\* table.fields = columns.fields, relationships.push(...), tables.push(table)
pushTable(schema, tableName, columns) ==
  [tables |-> Append(schema.tables, [name |-> tableName, fields |-> columns.fields]),
   relationships |->
     schema.relationships \o explicitRelationships(tableName, columns.relationships)]

\* the body of the while loop, for each match in turn
RECURSIVE matchLoop(_, _, _)
matchLoop(matches, k, schema) ==
  IF k > Len(matches) THEN schema
  ELSE matchLoop(matches, k + 1,
                 pushTable(schema, toLowerCase(matches[k].name),
                           parseColumnDefinitions(matches[k].body)))

\* the regular expression is created by each call, so the search of a call
\* starts at lastIndex 0 (index 1 here)
NewLastIndex == 1

\* arrays kept from one call to the next: a variant the property of C10
\* tells from the source
KeptSchema == parsed

\* the arrays a call starts with: const tables = [], const relationships = []
NewSchema == [tables |-> <<>>, relationships |-> <<>>]

\* the CREATE TABLE statements parseSQL finds in the cleaned text
matchesIn(s) == execLoop(s, toUpperCase(s), NewLastIndex, <<>>)

createTableMatches(text) == matchesIn(cleanSQL(text))

\* parseSQL up to the end of its while loop: the tables and the explicit
\* relationships, before inference
parseStatements(text) == matchLoop(createTableMatches(text), 1, NewSchema)

\* this.detectImplicitRelationships(tables, relationships) on the arrays
detectIn(schema) == detectImplicitRelationships(schema.tables, schema.relationships)

parseSQL(text) == detectIn(parseStatements(text))

(***************************************************************************)
(* SQLSyntaxMapper                                                         *)
(***************************************************************************)
PostgresSyntax ==
  [autoIncrement |-> [integerType |-> "INTEGER", syntax |-> "SERIAL PRIMARY KEY"],
   dataTypes |-> [serial |-> "SERIAL", text |-> "TEXT", integer |-> "INTEGER",
                  boolean |-> "BOOLEAN", timestamp |-> "TIMESTAMP",
                  decimal |-> "DECIMAL", varchar |-> "VARCHAR"],
   constraints |-> [primaryKey |-> "PRIMARY KEY", notNull |-> "NOT NULL",
                    unique |-> "UNIQUE", foreignKey |-> "REFERENCES"],
   functions |-> [now |-> "NOW()", uuid |-> "gen_random_uuid()"]]

MysqlSyntax ==
  [autoIncrement |-> [integerType |-> "INT", syntax |-> "INT AUTO_INCREMENT PRIMARY KEY"],
   dataTypes |-> [serial |-> "INT AUTO_INCREMENT", text |-> "TEXT", integer |-> "INT",
                  boolean |-> "BOOLEAN", timestamp |-> "TIMESTAMP",
                  decimal |-> "DECIMAL", varchar |-> "VARCHAR"],
   constraints |-> [primaryKey |-> "PRIMARY KEY", notNull |-> "NOT NULL",
                    unique |-> "UNIQUE", foreignKey |-> "REFERENCES"],
   functions |-> [now |-> "NOW()", uuid |-> "UUID()"]]

SqliteSyntax ==
  [autoIncrement |-> [integerType |-> "INTEGER",
                      syntax |-> "INTEGER PRIMARY KEY AUTOINCREMENT"],
   dataTypes |-> [serial |-> "INTEGER PRIMARY KEY AUTOINCREMENT", text |-> "TEXT",
                  integer |-> "INTEGER", boolean |-> "INTEGER", timestamp |-> "TEXT",
                  decimal |-> "REAL", varchar |-> "TEXT"],
   constraints |-> [primaryKey |-> "PRIMARY KEY", notNull |-> "NOT NULL",
                    unique |-> "UNIQUE", foreignKey |-> "REFERENCES"],
   functions |-> [now |-> "datetime('now')", uuid |-> "lower(hex(randomblob(16)))"]]

\* supabase as a plain alias of postgresql: a variant the property of C16
\* tells from the source
SupabaseAlias == PostgresSyntax

SupabaseSyntax ==
  [PostgresSyntax EXCEPT !.dataTypes.timestamp = "TIMESTAMP WITH TIME ZONE"]

\* dataTypes.varchar is a function of the length in the source: the entry here
\* is the word it prints before "(length)"; sqlite prints TEXT and no length
DATABASE_SYNTAX ==
  ("postgresql" :> PostgresSyntax) @@ ("mysql" :> MysqlSyntax) @@
  ("sqlite" :> SqliteSyntax) @@ ("supabase" :> SupabaseSyntax) @@
  ("planetscale" :> MysqlSyntax) @@ ("postgres-local" :> PostgresSyntax) @@
  ("mysql-local" :> MysqlSyntax)

\* DATABASE_SYNTAX is an object literal: a key it does not have itself is
\* looked up in Object.prototype. These are names of Object.prototype.
ObjectPrototypeKeys ==
  {"constructor", "toString", "toLocaleString", "valueOf", "hasOwnProperty",
   "isPrototypeOf", "propertyIsEnumerable", "__proto__"}

\* what DATABASE_SYNTAX[key] is for a name of Object.prototype: a function or
\* an object, which `!config` takes for a configuration, and whose properties
\* autoIncrement, dataTypes, constraints and functions are undefined
Inherited ==
  [autoIncrement |-> Undefined, dataTypes |-> Undefined,
   constraints |-> Undefined, functions |-> Undefined]

\* the outcome of a call that throws a TypeError (reading a property of
\* undefined), where a call that returns gives a string
TypeError == "TypeError"

\* DATABASE_SYNTAX[providerKey], and DATABASE_SYNTAX['postgresql'] when that
\* value is falsy
configOf(syntax, provider) ==
  IF provider \in DOMAIN syntax THEN syntax[provider]
  ELSE IF provider \in ObjectPrototypeKeys THEN Inherited
  ELSE syntax["postgresql"]

getSyntaxConfig(provider) == configOf(DATABASE_SYNTAX, provider)

\* config.dataTypes.varchar(length): length is Undefined or Some(digits);
\* the default parameter is 255
varchar(config, length) ==
  IF config.dataTypes.varchar = "TEXT" THEN "TEXT"
  ELSE config.dataTypes.varchar \o "("
       \o (IF length = Undefined THEN "255" ELSE length[1]) \o ")"

\* the digits from index first on ("0" when all the digits are zeros)
digitsFrom(digits, first) ==
  IF first > Len(digits) THEN "0" ELSE sliceFrom(digits, first)

\* parseInt of a run of digits, printed again: leading zeros are dropped
parseIntDigits(digits) == digitsFrom(digits, SkipWhile(digits, 1, LAMBDA c : c = "0"))

\* the length of the match of /varchar\((\d+)\)/ at index at (0: no match)
varcharLengthAt(lowerType, at) ==
  IF at = 0 THEN Undefined
  ELSE Some(parseIntDigits(
         SubSeq(lowerType, at + 8, SkipWhile(lowerType, at + 8, IsDigit) - 1)))

\* lowerType.match(/varchar\((\d+)\)/), as the parsed length
varcharLengthMatch(lowerType) ==
  varcharLengthAt(lowerType,
    First({i \in 1..Len(lowerType) :
             /\ startsWithAt(lowerType, "varchar(", i)
             /\ SkipWhile(lowerType, i + 8, IsDigit) > i + 8
             /\ startsWithAt(lowerType, ")", SkipWhile(lowerType, i + 8, IsDigit))}))

DATA_TYPE_MAP ==
  [text |-> "text", string |-> "text", int |-> "integer", int8 |-> "integer",
   integer |-> "integer", bool |-> "boolean", boolean |-> "boolean",
   timestamp |-> "timestamp", datetime |-> "timestamp", decimal |-> "decimal",
   numeric |-> "decimal"]

\* the body of mapDataType for a config and the lower-cased type; the three
\* branches that read config.dataTypes throw when it is undefined
mappedType(genericType, config, lowerType) ==
  IF /\ config.dataTypes = Undefined
     /\ \/ lowerType = "serial"
        \/ startsWith(lowerType, "varchar")
        \/ lowerType \in DOMAIN DATA_TYPE_MAP
  THEN TypeError
  ELSE IF lowerType = "serial" THEN config.dataTypes.serial
  ELSE IF startsWith(lowerType, "varchar")
  THEN varchar(config, varcharLengthMatch(lowerType))
  ELSE IF lowerType \in DOMAIN DATA_TYPE_MAP
  THEN config.dataTypes[DATA_TYPE_MAP[lowerType]]
  ELSE toUpperCase(genericType)

\* mapDataType without genericType.toLowerCase(): a variant the property of
\* C15 tells from the source
mapDataTypeAsWritten(genericType, provider) ==
  mappedType(genericType, getSyntaxConfig(provider), genericType)

\* mapDataType as exportSchemaAsSQL calls it, without options
mapDataType(genericType, provider) ==
  mappedType(genericType, getSyntaxConfig(provider), toLowerCase(genericType))

\* foreignKey without the referenced column: a variant the property of C18
\* tells from the source
foreignKeyOfTable(config, referencedTable, referencedColumn) ==
  config.constraints.foreignKey \o " " \o referencedTable

\* constraints.foreignKey(referencedTable, referencedColumn)
foreignKey(config, referencedTable, referencedColumn) ==
  config.constraints.foreignKey \o " " \o referencedTable
  \o "(" \o referencedColumn \o ")"

(***************************************************************************)
(* DiagramService                                                          *)
(***************************************************************************)
EmptyDiagram == [tables |-> <<>>, relationships |-> <<>>]

\* index is 0-based; cols is Math.ceil(Math.sqrt(totalTables))
calculateTablePosition(index, totalTables) ==
  LET spacing == 400
      maxCols == IF totalTables < 4 THEN totalTables ELSE 4
      cols == CHOOSE c \in 0..totalTables :
                c * c >= totalTables /\ (c = 0 \/ (c - 1) * (c - 1) < totalTables)
      actualCols == IF maxCols < cols THEN maxCols ELSE cols
  IN  [x |-> 150 + (index % actualCols) * spacing,
       y |-> 150 + (index \div actualCols) * spacing]

diagramFields(fields) ==
  [f \in 1..Len(fields) |->
     [name |-> fields[f].name, type |-> fields[f].type,
      isPrimaryKey |-> fields[f].primaryKey,
      isForeignKey |-> fields[f].foreignKey # Undefined,
      nullable |-> fields[f].nullable]]

\* this.diagramData.tables.find(t => t.name === name), as an index (0: none)
existingTable(diagramData, name) ==
  First({e \in 1..Len(diagramData.tables) : diagramData.tables[e].name = name})

\* the position updateFromSchema gives the table at 0-based index
positionOf(diagramData, existing, preservePositions, index, totalTables) ==
  IF preservePositions /\ existing # 0
  THEN diagramData.tables[existing].position
  ELSE calculateTablePosition(index, totalTables)

\* the diagramData that updateFromSchema assigns
updateFromSchema(diagramData, tables, relationships, preservePositions) ==
  [tables |->
     [t \in 1..Len(tables) |->
        [id |-> tables[t].name,
         name |-> tables[t].name,
         fields |-> diagramFields(tables[t].fields),
         position |-> positionOf(diagramData, existingTable(diagramData, tables[t].name),
                                 preservePositions, t - 1, Len(tables)),
         relationships |->
           [incoming |-> Cardinality({r \in 1..Len(relationships) :
                            relationships[r].toTable = tables[t].name}),
            outgoing |-> Cardinality({r \in 1..Len(relationships) :
                            relationships[r].fromTable = tables[t].name})]]],
   relationships |->
     [r \in 1..Len(relationships) |->
        [id |-> relationships[r].fromTable \o "_" \o relationships[r].fromField
                \o "_" \o relationships[r].toTable \o "_" \o relationships[r].toField,
         fromTable |-> relationships[r].fromTable,
         fromField |-> relationships[r].fromField,
         toTable |-> relationships[r].toTable,
         toField |-> relationships[r].toField]]]

\* newTable of addTable(table)
newTable(table, totalTables) ==
  [id |-> table.name,
   name |-> table.name,
   fields |-> diagramFields(table.fields),
   position |-> calculateTablePosition(totalTables, totalTables + 1),
   relationships |-> [incoming |-> 0, outgoing |-> 0]]

\* the diagramData after addTable: the table at existingIndex is replaced
\* and keeps its position, or the new table is pushed
addedTable(diagramData, added, existingIndex) ==
  IF existingIndex # 0
  THEN [diagramData EXCEPT
          !.tables[existingIndex] =
            [added EXCEPT !.position = diagramData.tables[existingIndex].position]]
  ELSE [diagramData EXCEPT !.tables = Append(@, added)]

\* DiagramService.addTable(table)
addTable(diagramData, table) ==
  addedTable(diagramData, newTable(table, Len(diagramData.tables)),
             existingTable(diagramData, table.name))

\* DiagramService.removeTable(tableName)
removeTable(diagramData, tableName) ==
  [tables |-> SelectSeq(diagramData.tables, LAMBDA t : t.name # tableName),
   relationships |->
     SelectSeq(diagramData.relationships,
               LAMBDA rel : rel.fromTable # tableName /\ rel.toTable # tableName)]

\* the callback of table.fields.map throws: mapDataType threw, or a property
\* of syntaxConfig.autoIncrement or syntaxConfig.constraints is read while
\* that is undefined
fieldThrows(field, syntaxConfig, type, relationship) ==
  IF field.isPrimaryKey /\ toLowerCase(field.type) \in {"int8", "integer", "serial"}
  THEN syntaxConfig.autoIncrement = Undefined
  ELSE \/ type = TypeError
       \/ /\ syntaxConfig.constraints = Undefined
          /\ field.isPrimaryKey \/ ~field.nullable \/ relationship # 0

\* the text of a column for its syntaxConfig, its mapped type and the index of
\* the first relationship from it (0: none)
fieldText(diagramData, field, syntaxConfig, type, relationship) ==
  IF fieldThrows(field, syntaxConfig, type, relationship) THEN TypeError ELSE
  "    " \o field.name
  \o (IF field.isPrimaryKey
      THEN IF toLowerCase(field.type) \in {"int8", "integer", "serial"}
           THEN " " \o syntaxConfig.autoIncrement.syntax
           ELSE " " \o type \o " " \o syntaxConfig.constraints.primaryKey
      ELSE " " \o type)
  \o (IF ~field.nullable /\ ~field.isPrimaryKey
      THEN " " \o syntaxConfig.constraints.notNull ELSE "")
  \o (IF relationship = 0 THEN ""
      ELSE " " \o foreignKey(syntaxConfig,
                             diagramData.relationships[relationship].toTable,
                             diagramData.relationships[relationship].toField))

\* the text of one column in exportSchemaAsSQL
fieldDefinition(diagramData, table, field, provider) ==
  fieldText(diagramData, field, getSyntaxConfig(provider),
            mapDataType(field.type, provider),
            First({r \in 1..Len(diagramData.relationships) :
                     /\ diagramData.relationships[r].fromTable = table.name
                     /\ diagramData.relationships[r].fromField = field.name}))

\* a call whose callback threw for one of the elements throws
throwsIn(results) == \E k \in 1..Len(results) : results[k] = TypeError

\* the template literal of createStatement over the texts of the fields
statementOf(table, fields) ==
  IF throwsIn(fields) THEN TypeError
  ELSE "CREATE TABLE IF NOT EXISTS " \o table.name \o " (\n"
       \o join(fields, ",\n") \o "\n);"

createStatement(diagramData, table, provider) ==
  statementOf(table,
              [f \in 1..Len(table.fields) |->
                 fieldDefinition(diagramData, table, table.fields[f], provider)])

\* statements joined by line ends only: a variant the property of C13 tells
\* from the source
joinLines(sqlStatements) ==
  IF throwsIn(sqlStatements) THEN TypeError ELSE join(sqlStatements, "\n")

\* sqlStatements.join('\n\n')
joinStatements(sqlStatements) ==
  IF throwsIn(sqlStatements) THEN TypeError ELSE join(sqlStatements, "\n\n")

exportSchemaAsSQL(diagramData, provider) ==
  IF Len(diagramData.tables) = 0 THEN ""
  ELSE joinStatements([t \in 1..Len(diagramData.tables) |->
                         createStatement(diagramData, diagramData.tables[t], provider)])

(***************************************************************************)
(* Inputs                                                                  *)
(***************************************************************************)
\* the CREATE TABLE statements the parser inputs are made of
Statements ==
  <<"CREATE TABLE users (id SERIAL PRIMARY KEY, email TEXT NOT NULL);",
    "CREATE TABLE posts (id SERIAL PRIMARY KEY, user_id INTEGER, title TEXT);",
    "create table User (uid uuid primary key, name varchar(80) not null default 'anon');",
    "CREATE TABLE usery (id INT PRIMARY KEY, user_id INT, log_id INT);",
    "CREATE TABLE logs (\n  id BIGSERIAL, -- the key\n  external_id INT,\n  price NUMERIC(10,2) NOT NULL DEFAULT 0,\n  user_id INT REFERENCES Accounts (ID)\n);",
    "CREATE TABLE broken (id INT PRIMARY KEY",
    "CREATE TABLE aea (id INT PRIMARY KEY, a_idea_id INT);">>

\* the longest input, in statements
MaxStatements == 3

\* the inputs: up to MaxStatements statements, in any order, repeats allowed
Scripts == UNION {[1..n -> 1..Len(Statements)] : n \in 0..MaxStatements}

ScriptText(s) == join([k \in 1..Len(s) |-> Statements[s[k]]], "\n")

\* the number of parseSQL calls followed when calls are repeated
MaxCalls == 3

\* no table and no relationship
EmptySchema == [tables |-> <<>>, relationships |-> <<>>]

\* firstCall before a call is made; others counts the later calls made on
\* other arguments
NoCall == [made |-> FALSE, sql |-> "", result |-> EmptySchema, others |-> 0]

NoExport == [made |-> FALSE, provider |-> "", text |-> "", source |-> ""]

ParserIdle == sql = "" /\ declared = EmptySchema /\ parsed = EmptySchema /\ calls = 0 /\ firstCall = NoCall

SplitIdle == splitInput = "" /\ splitResult = Undefined

\* no table selected, nothing delivered to the selection listeners
NoSelection == [selectedTableName |-> Undefined, notified |-> FALSE, delivered |-> Undefined]

DiagramIdle ==
  diagram = EmptyDiagram /\ loaded = "" /\ exported = NoExport /\ selection = NoSelection

\* mapped before a call is made
NoMapping == [made |-> FALSE, genericType |-> "", provider |-> "", result |-> ""]

MapperIdle == mapped = NoMapping

\* imported before a call is made
NoImport == [made |-> FALSE, sql |-> "", resolved |-> FALSE]

\* nothing returned by getProvider or getActiveProvider yet
NoProvider == [made |-> FALSE, provider |-> Undefined, saved |-> Undefined]

\* DatabaseService as constructed with nothing in localStorage
NoDatabase ==
  [configs |-> <<>>, activeConfig |-> Undefined, providers |-> {}, returned |-> NoProvider]

\* MigrationService as constructed with nothing in localStorage
NoMigrations == [history |-> <<>>, now |-> 1]

\* deployment before a call is made
NoDeployment ==
  [made |-> FALSE, count |-> 0, op |-> "", options |-> <<>>, configIds |-> <<>>,
   results |-> <<>>, historyBefore |-> <<>>]

ServicesIdle ==
  /\ imported = NoImport
  /\ database = NoDatabase
  /\ migration = NoMigrations
  /\ deployment = NoDeployment

(***************************************************************************)
(* Operations                                                              *)
(***************************************************************************)
\* SchemaParser.parseSQL(text)
ParseSQL(text) ==
  /\ calls < MaxCalls
  /\ sql' = text
  /\ declared' = parseStatements(text)
  /\ parsed' = detectIn(declared')
  /\ calls' = calls + 1
  /\ firstCall' = IF calls = 0
                  THEN [made |-> TRUE, sql |-> text, result |-> parsed', others |-> 0]
                  ELSE [firstCall EXCEPT
                          !.others = IF text = firstCall.sql THEN @ ELSE @ + 1]
  /\ UNCHANGED <<selection, serviceVars>>
  /\ UNCHANGED <<script, mapped, splitInput, splitResult, diagram, loaded, exported>>

\* SchemaParser.splitColumnDefinitions(splitInput)
SplitColumnDefinitions ==
  /\ splitResult = Undefined
  /\ splitResult' = Some(splitColumnDefinitions(splitInput))
  /\ UNCHANGED <<selection, serviceVars>>
  /\ UNCHANGED <<script, mapped, sql, declared, parsed, calls, firstCall, splitInput, diagram,
                 loaded, exported>>

\* DiagramService.updateFromSchema(parsed.tables, parsed.relationships,
\* preservePositions), as the callers of parseSQL call it with its result
UpdateFromSchema(preservePositions) ==
  /\ calls > 0
  /\ diagram' = updateFromSchema(diagram, parsed.tables, parsed.relationships,
                                 preservePositions)
  /\ loaded' = sql
  /\ selection' = [selection EXCEPT !.selectedTableName = Undefined]
  /\ UNCHANGED serviceVars
  /\ UNCHANGED <<script, mapped, sql, declared, parsed, calls, firstCall, splitInput, splitResult,
                 exported>>

\* DiagramService.exportSchemaAsSQL(provider)
ExportSchemaAsSQL(provider) ==
  /\ exported' = [made |-> TRUE, provider |-> provider,
                  text |-> exportSchemaAsSQL(diagram, provider), source |-> loaded]
  /\ UNCHANGED <<selection, serviceVars>>
  /\ UNCHANGED <<script, mapped, sql, declared, parsed, calls, firstCall, splitInput, splitResult,
                 diagram, loaded>>

\* SchemaDataService.importFromJSON, once the text is parsed and validated:
\* updateFromSchema(importData.tables, importData.relationships); any arrays
\* of tables and relationships pass validateImportData
ImportFromJSON(importData) ==
  /\ diagram' = updateFromSchema(diagram, importData.tables, importData.relationships,
                                 FALSE)
  /\ loaded' = ""
  /\ selection' = [selection EXCEPT !.selectedTableName = Undefined]
  /\ UNCHANGED serviceVars
  /\ UNCHANGED <<script, mapped, sql, declared, parsed, calls, firstCall, splitInput,
                 splitResult, exported>>

\* the state other than the diagram and the selection
notDiagram ==
  <<script, mapped, sql, declared, parsed, calls, firstCall, splitInput, splitResult,
    exported, serviceVars>>

\* DiagramService.selectTable(tableName): the name is stored, whatever it
\* is, and delivered to the selection listeners
SelectTable(tableName) ==
  /\ selection' = [selectedTableName |-> tableName, notified |-> TRUE,
                   delivered |-> tableName]
  /\ UNCHANGED <<diagram, loaded>>
  /\ UNCHANGED notDiagram

\* DiagramService.addTable(table): notifyListeners() only
AddTable(table) ==
  /\ diagram' = addTable(diagram, table)
  /\ loaded' = ""
  /\ UNCHANGED selection
  /\ UNCHANGED notDiagram

\* DiagramService.removeTable(tableName): notifyListeners() only
RemoveTable(tableName) ==
  /\ diagram' = removeTable(diagram, tableName)
  /\ loaded' = ""
  /\ UNCHANGED selection
  /\ UNCHANGED notDiagram

\* DiagramService.clearDiagram(): the selection listeners are not notified
ClearDiagram ==
  /\ diagram' = EmptyDiagram
  /\ loaded' = ""
  /\ selection' = [selection EXCEPT !.selectedTableName = Undefined]
  /\ UNCHANGED notDiagram

\* the methods of an instance new SchemaParser(): every method of the class
\* is static, a property of the class and not of its instances
InstanceMethods == {}

\* parseResult.success is truthy: a ParsedSchema has the properties tables and
\* relationships
successOf(parseResult) == "success" \in DOMAIN parseResult /\ parseResult.success

\* importFromSQL from the result of parseSQL on
importParsed(diagramData, parseResult) ==
  IF ~successOf(parseResult)
  THEN [resolved |-> FALSE, updated |-> FALSE, diagramData |-> diagramData]
  ELSE [resolved |-> TRUE, updated |-> TRUE,
        diagramData |-> updateFromSchema(diagramData, parseResult.tables,
                                         parseResult.relationships, FALSE)]

\* the outcome of importFromSQL: the call schemaParser.parseSQL(sqlString) on
\* the instance throws when the instance has no such method, and the catch
\* rejects the promise
importFromSQL(diagramData, sqlString) ==
  IF "parseSQL" \notin InstanceMethods
  THEN [resolved |-> FALSE, updated |-> FALSE, diagramData |-> diagramData]
  ELSE importParsed(diagramData, parseSQL(sqlString))

settleImport(sqlString, outcome) ==
  /\ imported' = [made |-> TRUE, sql |-> sqlString, resolved |-> outcome.resolved]
  /\ diagram' = outcome.diagramData
  /\ loaded' = IF outcome.updated THEN sqlString ELSE loaded
  /\ selection' = IF outcome.updated
                  THEN [selection EXCEPT !.selectedTableName = Undefined]
                  ELSE selection

\* SchemaDataService.importFromSQL(sqlString)
ImportFromSQL(sqlString) ==
  /\ settleImport(sqlString, importFromSQL(diagram, sqlString))
  /\ UNCHANGED <<database, migration, deployment>>
  /\ UNCHANGED <<script, mapped, sql, declared, parsed, calls, firstCall, splitInput,
                 splitResult, exported>>

\* the state other than that of DatabaseService
notDatabase ==
  <<script, sql, declared, parsed, calls, firstCall, splitInput, splitResult, diagram,
    loaded, exported, mapped, selection, imported, migration, deployment>>

\* this.configs.findIndex(c => c.id === id), 1-based (0: none)
configIndex(configs, id) == First({k \in 1..Len(configs) : configs[k].id = id})

\* this.configs.find(c => c.id === id), as an option
configOfId(configs, id) ==
  IF configIndex(configs, id) = 0 THEN Undefined ELSE Some(configs[configIndex(configs, id)])

saveConfig(db, config, existingIndex) ==
  [db EXCEPT !.configs = IF existingIndex # 0
                         THEN [@ EXCEPT ![existingIndex] = config]
                         ELSE Append(@, config)]

deleteConfig(db, configId) ==
  [db EXCEPT !.configs = SelectSeq(@, LAMBDA c : c.id # configId),
             !.activeConfig = IF @ # Undefined /\ @[1].id = configId THEN Undefined ELSE @,
             !.providers = {p \in @ : p.config.id # configId}]

setActiveConfig(db, config) ==
  IF config # Undefined THEN [db EXCEPT !.activeConfig = config] ELSE db

\* the provider class createProvider instantiates; the instance keeps the
\* config it is constructed with
createProvider(config) ==
  [class |-> CASE config.provider = "sqlite" -> "SQLiteProvider"
               [] config.provider = "postgres-local" -> "PostgreSQLProvider"
               [] config.provider = "mysql-local" -> "MySQLProvider",
   config |-> config]

\* this.providers.has(id)
hasProvider(providers, id) == \E p \in providers : p.config.id = id

\* this.providers after getProvider(config)
providersWith(providers, config) ==
  IF hasProvider(providers, config.id) THEN providers
  ELSE providers \cup {createProvider(config)}

\* this.providers.get(id)
providerOf(providers, id) == CHOOSE p \in providers : p.config.id = id

\* what getProvider returned, with the configuration saved under the id of
\* its argument when it was called
returnOf(db, providers, id) ==
  [made |-> TRUE, provider |-> Some(providerOf(providers, id)),
   saved |-> configOfId(db.configs, id)]

getProvider(db, config) ==
  [db EXCEPT !.providers = providersWith(@, config),
             !.returned = returnOf(db, providersWith(db.providers, config), config.id)]

getActiveProvider(db) ==
  IF db.activeConfig = Undefined
  THEN [db EXCEPT !.returned = [made |-> TRUE, provider |-> Undefined, saved |-> Undefined]]
  ELSE getProvider(db, db.activeConfig[1])

\* DatabaseService.saveConfig(config)
SaveConfig(config) ==
  /\ database' = saveConfig(database, config, configIndex(database.configs, config.id))
  /\ UNCHANGED notDatabase

\* DatabaseService.deleteConfig(configId)
DeleteConfig(configId) ==
  /\ database' = deleteConfig(database, configId)
  /\ UNCHANGED notDatabase

\* DatabaseService.setActiveConfig(configId)
SetActiveConfig(configId) ==
  /\ database' = setActiveConfig(database, configOfId(database.configs, configId))
  /\ UNCHANGED notDatabase

\* DatabaseService.getProvider(config) for one of getConfigs()
GetProvider(k) ==
  /\ k \in 1..Len(database.configs)
  /\ database' = getProvider(database, database.configs[k])
  /\ UNCHANGED notDatabase

\* DatabaseService.getActiveProvider()
GetActiveProvider ==
  /\ database' = getActiveProvider(database)
  /\ UNCHANGED notDatabase

(***************************************************************************)
(* Providers, MigrationService and DeploymentService                       *)
(***************************************************************************)
\* the parts of sql.split(';') that are not blank, trimmed and in upper case
statementsIn(parts) ==
  {toUpperCase(trim(parts[k])) : k \in {j \in 1..Len(parts) : trim(parts[j]) # ""}}

statementsOf(text) == statementsIn(SplitOn(text, ";"))

\* a statement for which validateSql of the provider class pushes an error
hasError(class, statement) ==
  \/ startsWith(statement, "CREATE TABLE") /\ ~includes(statement, "(")
  \/ class = "SQLiteProvider" /\ includes(statement, "AUTO_INCREMENT")
  \/ class = "PostgreSQLProvider"
     /\ (includes(statement, "AUTO_INCREMENT") \/ includes(statement, "ENGINE="))
  \/ class = "MySQLProvider"
     /\ (includes(statement, "SERIAL") \/ includes(statement, "BOOLEAN"))

\* provider.validateSql(text).valid
validateSql(class, text) == \A statement \in statementsOf(text) : ~hasError(class, statement)

\* provider.generateMigration(fromSql, toSql) of SQLiteProvider and
\* PostgreSQLProvider at time now; name, checksum and createdAt are left out
generateMigrationOf(class, fromSql, toSql, now) ==
  IF class = "SQLiteProvider"
  THEN [id |-> <<"migration_", now>>, sql |-> toSql, rollbackSql |-> fromSql]
  ELSE [id |-> <<"migration_", now>>,
        sql |-> "-- Migration generated at " \o ToString(now) \o "\n" \o toSql,
        rollbackSql |-> "-- Rollback migration\n" \o fromSql]

\* result.success of provider.deploySchema(text), and of applyMigration, which
\* executes migration.sql: accepts tells whether the database executes the
\* statements; SQLiteProvider refuses a blank text before it executes it
providerSucceeds(class, text, accepts) ==
  IF class = "SQLiteProvider" /\ trim(text) = "" THEN FALSE ELSE accepts

\* the first of the applied entries, whatever its appliedAt
firstOf(applied) == IF Len(applied) = 0 THEN Undefined ELSE Some(applied[1])

\* getLastAppliedMigration(): reduce keeps the first of the applied entries
\* with the greatest appliedAt
lastOf(applied) ==
  IF Len(applied) = 0 THEN Undefined
  ELSE Some(applied[First({k \in 1..Len(applied) :
                             \A j \in 1..Len(applied) :
                               applied[j].appliedAt <= applied[k].appliedAt})])

getLastAppliedMigration(history) ==
  lastOf(SelectSeq(history, LAMBDA m : m.status = "applied"))

addToHistory(history, entry) ==
  Append(SelectSeq(history, LAMBDA m : m.id # entry.id), entry)

updateMigrationStatus(history, migrationId, status) ==
  [k \in 1..Len(history) |->
     IF k = First({j \in 1..Len(history) : history[j].id = migrationId})
     THEN [history[k] EXCEPT !.status = status]
     ELSE history[k]]

\* the entry applyMigration and deployCurrentSchema add on success; no
\* provider returns details.instructions, so the status is 'applied'
appliedEntry(id, text, rollbackSql, now) ==
  [id |-> id, sql |-> text, appliedAt |-> now, rollbackSql |-> rollbackSql,
   status |-> "applied"]

\* a call of a method of a provider
callOf(method, provider) == [method |-> method, config |-> provider.config]

\* MigrationService.applyMigration(migration)
applyMigration(provider, history, generated, now, succeeds) ==
  [success |-> succeeds,
   calls |-> <<callOf("generateMigration", provider), callOf("applyMigration", provider)>>,
   history |-> IF succeeds
               THEN addToHistory(history,
                      appliedEntry(generated.id, generated.sql, generated.rollbackSql, now))
               ELSE history]

\* deployWithMigrations: generateMigration, then applyMigration
migrate(provider, history, generated, now, accepts) ==
  applyMigration(provider, history, generated, now,
                 providerSucceeds(provider.class, generated.sql, accepts))

deployWithMigrations(provider, history, current, lastSql, now, accepts) ==
  IF current = lastSql THEN [success |-> TRUE, calls |-> <<>>, history |-> history]
  ELSE migrate(provider, history,
               generateMigrationOf(provider.class, lastSql, current, now), now, accepts)

\* MigrationService.deployCurrentSchema()
deployCurrentSchema(provider, history, current, now, succeeds) ==
  IF trim(current) = "" THEN [success |-> FALSE, calls |-> <<>>, history |-> history]
  ELSE [success |-> succeeds,
        calls |-> <<callOf("deploySchema", provider)>>,
        history |-> IF succeeds
                    THEN addToHistory(history,
                                      appliedEntry(<<"deployment_", now>>, current, "", now))
                    ELSE history]

\* lastMigration?.sql || ''
sqlOf(lastMigration) == IF lastMigration = Undefined THEN "" ELSE lastMigration[1].sql

\* step 3 of deploySchema
deployStep(provider, history, current, options, now, accepts) ==
  IF options.useMigrations
  THEN deployWithMigrations(provider, history, current,
                            sqlOf(getLastAppliedMigration(history)), now, accepts)
  ELSE deployCurrentSchema(provider, history, current, now,
                           providerSucceeds(provider.class, current, accepts))

\* step 3 without step 2, the validation
deployUnvalidated(provider, history, current, options, now, accepts) ==
  deployStep(provider, history, current, options, now, accepts)

\* steps 1 to 3 of deploySchema for the active provider and the SQL of the
\* diagram
deploySteps(provider, history, current, options, now, accepts) ==
  IF options.validateBeforeDeploy /\ ~validateSql(provider.class, current)
  THEN [success |-> FALSE, calls |-> <<callOf("validateSql", provider)>>,
        history |-> history]
  ELSE deployStep(provider, history, current, options, now, accepts)

\* this.providers after getActiveProvider() with an active configuration
activeProviders(db) == providersWith(db.providers, db.activeConfig[1])

\* DeploymentService.deploySchema(options): the result, the provider calls
\* made, the history and the providers afterwards
deployActive(db, providers, history, diagramData, options, now, accepts) ==
  [target |-> db.activeConfig, providers |-> providers]
  @@ deploySteps(providerOf(providers, db.activeConfig[1].id), history,
                 exportSchemaAsSQL(diagramData, db.activeConfig[1].provider),
                 options, now, accepts)

deploySchema(db, history, diagramData, options, now, accepts) ==
  IF db.activeConfig = Undefined
  THEN [target |-> Undefined, providers |-> db.providers, success |-> FALSE,
        calls |-> <<>>, history |-> history]
  ELSE deployActive(db, activeProviders(db), history, diagramData, options, now, accepts)

\* the state after a deployment, at time later, and the results with its
\* result added
afterDeployment(db, outcome, results, configId, later) ==
  [db |-> [db EXCEPT !.providers = outcome.providers],
   history |-> outcome.history,
   now |-> later,
   results |-> Append(results, [configId |-> configId, success |-> outcome.success,
                                target |-> outcome.target, calls |-> outcome.calls])]

\* the for loop of deployToMultipleEnvironments from configIds[i] on;
\* accepts[i] tells whether the database of deployment i executes the statements
RECURSIVE deployLoop(_, _, _, _, _, _)
deployNext(state, diagramData, configIds, options, accepts, i) ==
  IF ~state.results[Len(state.results)].success THEN state
  ELSE deployLoop(state, diagramData, configIds, options, accepts, i + 1)

deployTo(db, state, diagramData, configIds, options, accepts, i) ==
  deployNext(afterDeployment(db,
                             deploySchema(db, state.history, diagramData, options,
                                          state.now, accepts[i]),
                             state.results, configIds[i], state.now + 1),
             diagramData, configIds, options, accepts, i)

deployLoop(state, diagramData, configIds, options, accepts, i) ==
  IF i > Len(configIds) THEN state
  ELSE deployTo(setActiveConfig(state.db, configOfId(state.db.configs, configIds[i])),
                state, diagramData, configIds, options, accepts, i)

\* MigrationService.rollbackLastMigration(): 'none' when there is no applied
\* migration with rollback SQL, 'throws' when there is no active provider
rollbackWith(provider, history, lastMigration, succeeds) ==
  [outcome |-> IF succeeds THEN "success" ELSE "failure",
   calls |-> <<callOf("deploySchema", provider)>>,
   history |-> IF succeeds
               THEN updateMigrationStatus(history, lastMigration.id, "pending")
               ELSE history]

rollbackActive(db, providers, history, lastMigration, accepts) ==
  [providers |-> providers]
  @@ rollbackWith(providerOf(providers, db.activeConfig[1].id), history, lastMigration,
                  providerSucceeds(providerOf(providers, db.activeConfig[1].id).class,
                                   lastMigration.rollbackSql, accepts))

rollbackOf(db, history, lastMigration, accepts) ==
  IF lastMigration = Undefined
  THEN [providers |-> db.providers, outcome |-> "none", calls |-> <<>>, history |-> history]
  ELSE IF lastMigration[1].rollbackSql = ""
  THEN [providers |-> db.providers, outcome |-> "none", calls |-> <<>>, history |-> history]
  ELSE IF db.activeConfig = Undefined
  THEN [providers |-> db.providers, outcome |-> "throws", calls |-> <<>>,
        history |-> history]
  ELSE rollbackActive(db, activeProviders(db), history, lastMigration[1], accepts)

rollbackLastMigration(db, history, accepts) ==
  rollbackOf(db, history, getLastAppliedMigration(history), accepts)

\* the state other than that of the three services
notDeployment ==
  <<script, sql, declared, parsed, calls, firstCall, splitInput, splitResult, diagram,
    loaded, exported, mapped, selection, imported>>

settleDeployment(op, options, configIds, state) ==
  /\ database' = state.db
  /\ migration' = [history |-> state.history, now |-> state.now]
  /\ deployment' = [made |-> TRUE, count |-> deployment.count + 1, op |-> op,
                    options |-> options, configIds |-> configIds,
                    results |-> state.results, historyBefore |-> migration.history]

\* DeploymentService.deploySchema(options); elapsed is the time Date.now()
\* advances by, 0 when the next call is made within the same millisecond
DeploySchema(options, accepts, elapsed) ==
  /\ settleDeployment("deploySchema", options, <<>>,
       afterDeployment(database,
                       deploySchema(database, migration.history, diagram, options,
                                    migration.now, accepts),
                       <<>>, "", migration.now + elapsed))
  /\ UNCHANGED notDeployment

\* DeploymentService.deployToMultipleEnvironments(configIds, options)
DeployToMultipleEnvironments(configIds, options, accepts) ==
  /\ settleDeployment("deployToMultipleEnvironments", options, configIds,
       deployLoop([db |-> database, history |-> migration.history, now |-> migration.now,
                   results |-> <<>>],
                  diagram, configIds, options, accepts, 1))
  /\ UNCHANGED notDeployment

settleRollback(rollback) ==
  /\ database' = [database EXCEPT !.providers = rollback.providers]
  /\ migration' = [migration EXCEPT !.history = rollback.history]
  /\ deployment' = [made |-> TRUE, count |-> deployment.count + 1,
                    op |-> "rollbackLastMigration", options |-> <<>>, configIds |-> <<>>,
                    results |-> <<[configId |-> "", success |-> rollback.outcome = "success",
                                   target |-> database.activeConfig,
                                   calls |-> rollback.calls]>>,
                    historyBefore |-> migration.history]

\* MigrationService.rollbackLastMigration()
RollbackLastMigration(accepts) ==
  /\ settleRollback(rollbackLastMigration(database, migration.history, accepts))
  /\ UNCHANGED notDeployment

\* SQLSyntaxMapper.mapDataType(genericType, provider)
MapDataType(genericType, provider) ==
  /\ mapped' = [made |-> TRUE, genericType |-> genericType, provider |-> provider,
                result |-> mapDataType(genericType, provider)]
  /\ UNCHANGED <<selection, serviceVars>>
  /\ UNCHANGED <<script, sql, declared, parsed, calls, firstCall, splitInput,
                 splitResult, diagram, loaded, exported>>

(***************************************************************************)
(* One call of the parser on each input                                    *)
(***************************************************************************)
InitParser == script \in Scripts /\ ParserIdle /\ SplitIdle /\ DiagramIdle /\ MapperIdle
  /\ ServicesIdle

NextParser == calls = 0 /\ ParseSQL(ScriptText(script))

SpecParser == InitParser /\ [][NextParser]_vars

(***************************************************************************)
(* Parse, load into the diagram, export, and import what was exported      *)
(***************************************************************************)
EndToEndSQL ==
  "CREATE TABLE users (id SERIAL PRIMARY KEY, email TEXT NOT NULL); CREATE TABLE posts (id SERIAL PRIMARY KEY, user_id INTEGER, title TEXT);"

ExplicitSQL ==
  "CREATE TABLE accounts (id UUID PRIMARY KEY, active BOOLEAN NOT NULL, created TIMESTAMP, balance NUMERIC(10,2), meta JSON);\nCREATE TABLE orders (id SERIAL PRIMARY KEY, account INT NOT NULL REFERENCES accounts(id), note TEXT);"

PipelineInputs == {EndToEndSQL, ExplicitSQL}

Providers == {"postgresql", "postgres-local", "mysql", "mysql-local", "sqlite"}

Init == script = <<>> /\ ParserIdle /\ SplitIdle /\ DiagramIdle /\ MapperIdle
  /\ ServicesIdle

Next ==
  \/ \E text \in PipelineInputs \cup {exported.text} : ParseSQL(text)
  \/ \E preservePositions \in BOOLEAN : UpdateFromSchema(preservePositions)
  \/ \E provider \in Providers : ExportSchemaAsSQL(provider)

Spec == Init /\ [][Next]_vars

(***************************************************************************)
(* Repeated calls of the parser                                            *)
(***************************************************************************)
\* the empty text, each statement alone, and the inputs of the pipeline
RepeatInputs ==
  {""} \cup {Statements[i] : i \in 1..Len(Statements)} \cup PipelineInputs

NextRepeat == \E text \in RepeatInputs : ParseSQL(text)

SpecRepeat == Init /\ [][NextRepeat]_vars

(***************************************************************************)
(* One call of splitColumnDefinitions on each table body                   *)
(***************************************************************************)
\* the longest generated body, in characters
MaxBodyLen == 4

BodyChars == {"a", ",", "(", ")", " ", "'"}

\* the bodies one character longer than those of shorter, and shorter
Extend(shorter) == shorter \cup {b \o c : b \in shorter, c \in BodyChars}

RECURSIVE BodiesOf(_)
BodiesOf(n) == IF n = 0 THEN {""} ELSE Extend(BodiesOf(n - 1))

SampleBodies ==
  {"price NUMERIC(10,2) NOT NULL",
   "id SERIAL PRIMARY KEY, price NUMERIC(10,2) NOT NULL, name VARCHAR(80)",
   "id INT, name TEXT, PRIMARY KEY (id, name)",
   "name TEXT DEFAULT 'a,b', id INT"}

Bodies == BodiesOf(MaxBodyLen) \cup SampleBodies

InitSplit ==
  script = <<>> /\ ParserIdle /\ splitInput \in Bodies /\ splitResult = Undefined /\ DiagramIdle /\ MapperIdle
  /\ ServicesIdle

NextSplit == SplitColumnDefinitions

SpecSplit == InitSplit /\ [][NextSplit]_vars

(***************************************************************************)
(* Calls of the type mapper                                                *)
(***************************************************************************)
\* the keys of the syntax table, an identifier that is no key, and a name of
\* Object.prototype
AllProviders == DOMAIN DATABASE_SYNTAX \cup {"oracle", "constructor"}

\* type tokens: the logical types in several letter cases, and others
TypeTokens ==
  {"text", "TEXT", "Text", "string", "int", "int8", "INT8", "integer", "Integer",
   "bool", "boolean", "BOOLEAN", "Boolean", "timestamp", "TIMESTAMP", "TimeStamp",
   "datetime", "decimal", "numeric", "NUMERIC", "Numeric", "serial", "SERIAL",
   "varchar", "varchar(80)", "VARCHAR(007)", "uuid", "json", "constructor"}

NextMap == \E genericType \in TypeTokens, provider \in AllProviders :
             MapDataType(genericType, provider)

(***************************************************************************)
(* Export of imported schemas                                              *)
(***************************************************************************)
\* the field types of the imported sample schemas
SampleTypes ==
  {"int8", "integer", "Integer", "serial", "text", "boolean", "timestamp",
   "datetime", "numeric", "uuid", "varchar(80)"}

ToOwners ==
  [fromTable |-> "items", fromField |-> "owner_id", toTable |-> "owners", toField |-> "id"]

ToUsers ==
  [fromTable |-> "items", fromField |-> "owner_id", toTable |-> "users", toField |-> "uid"]

\* a schema with the table items, its one field owner_id, and relationships
SampleSchema(type, primaryKey, nullable, relationships) ==
  [tables |->
     <<[name |-> "items",
        fields |-> <<[name |-> "owner_id", type |-> type, nullable |-> nullable,
                      primaryKey |-> primaryKey,
                      foreignKey |-> IF relationships = <<>> THEN Undefined
                                     ELSE Some([table |-> relationships[1].toTable,
                                                column |-> relationships[1].toField]),
                      defaultValue |-> Undefined]>>]>>,
   relationships |-> relationships]

\* the schemas imported: the samples, and what the parser returns for the
\* inputs of the pipeline
ImportedSchemas ==
  {SampleSchema(type, primaryKey, nullable, relationships) :
     type \in SampleTypes, primaryKey \in BOOLEAN, nullable \in BOOLEAN,
     relationships \in {<<>>, <<ToOwners>>, <<ToOwners, ToUsers>>}}
  \cup {parseSQL(text) : text \in PipelineInputs}

\* a schema is imported, then exported for one provider after another
NextExport ==
  \/ \E importData \in ImportedSchemas : ~exported.made /\ ImportFromJSON(importData)
  \/ \E provider \in AllProviders : ExportSchemaAsSQL(provider)

\* mapDataType is static and reads no state: its calls are followed on a
\* service that has imported and exported nothing, and the imports and
\* exports where no type was mapped on its own
NextDialects ==
  \/ ~exported.made /\ diagram = EmptyDiagram /\ NextMap
  \/ ~mapped.made /\ NextExport

SpecDialects == Init /\ [][NextDialects]_vars

(***************************************************************************)
(* C1: round-trip stability                                                *)
(***************************************************************************)
\* a text whose parse holds no inferred relationship
AllExplicit(text) == parseSQL(text).relationships = parseStatements(text).relationships

\* the SQL generated for the schema of a text
FirstGenerated(text, provider) ==
  exportSchemaAsSQL(updateFromSchema(EmptyDiagram, parseSQL(text).tables,
                                     parseSQL(text).relationships, FALSE),
                    provider)

\* C1: when the diagram that was exported had been loaded from the parse of
\* the SQL first generated, for the same provider, for a schema with explicit
\* relationships and canonical types only, the SQL generated again is exactly
\* the SQL first generated.
C1_RoundTripStable ==
  \A input \in PipelineInputs :
    (/\ AllExplicit(input)
     /\ exported.made
     /\ exported.source = FirstGenerated(input, exported.provider))
    => exported.text = exported.source

\* the second generation of a round trip has been made
C1_RoundTripMade ==
  /\ exported.made
  /\ exported.source = FirstGenerated(ExplicitSQL, exported.provider)
  /\ AllExplicit(ExplicitSQL)
  /\ sql = exported.source

(***************************************************************************)
(* C2: auto-increment primary key                                          *)
(***************************************************************************)
\* the raw type token of a column clause
RawTypeToken(clause) == toUpperCase(splitSpaces(clause)[2])

\* C2: every column whose raw type token is SERIAL or BIGSERIAL (in any letter
\* case) is returned by parseSQL with primaryKey = true and nullable = false,
\* whatever else its clause says.
C2_SerialIsPrimaryKey ==
  calls = 1 =>
    LET matches == createTableMatches(sql)
    IN  \A k \in 1..Len(matches) :
          LET clauses == splitColumnDefinitions(matches[k].body)
          IN  \A c \in 1..Len(clauses) :
                (/\ Len(splitSpaces(clauses[c])) >= 2
                 /\ RawTypeToken(clauses[c]) \in {"SERIAL", "BIGSERIAL"})
                => \A f \in 1..Len(parsed.tables[k].fields) :
                     parsed.tables[k].fields[f].name
                       = toLowerCase(splitSpaces(clauses[c])[1])
                     => /\ parsed.tables[k].fields[f].primaryKey
                        /\ ~parsed.tables[k].fields[f].nullable

\* a SERIAL column declared without PRIMARY KEY has been parsed
C2_BareSerialParsed ==
  /\ calls = 1
  /\ \E k \in 1..Len(parsed.tables) : \E f \in 1..Len(parsed.tables[k].fields) :
       /\ parsed.tables[k].name = "logs"
       /\ parsed.tables[k].fields[f].name = "id"
       /\ ~parsed.tables[k].fields[f].primaryKey

(***************************************************************************)
(* C3: relationships and foreign keys agree                                *)
(***************************************************************************)
\* the fields of a schema, as <<index of the table, index of the field>>
FieldsOf(schema) ==
  UNION {{<<t, f>> : f \in 1..Len(schema.tables[t].fields)} :
           t \in 1..Len(schema.tables)}

TableOf(schema, tf) == schema.tables[tf[1]]

FieldOf(schema, tf) == schema.tables[tf[1]].fields[tf[2]]

\* the relationships of a schema that leave a column of a table
RelationshipsFrom(schema, tableName, fieldName) ==
  {r \in 1..Len(schema.relationships) :
     /\ schema.relationships[r].fromTable = tableName
     /\ schema.relationships[r].fromField = fieldName}

\* the fields a relationship names that hold it as their foreignKey
FieldsHolding(schema, rel) ==
  {tf \in FieldsOf(schema) :
     /\ TableOf(schema, tf).name = rel.fromTable
     /\ FieldOf(schema, tf).name = rel.fromField
     /\ FieldOf(schema, tf).foreignKey
          = Some([table |-> rel.toTable, column |-> rel.toField])}

\* C3: in the schema parseSQL returns, for any input, every relationship has
\* exactly one field of its fromTable/fromField whose foreignKey is its
\* {toTable, toField}, and every field with a foreignKey has a relationship
\* from its table and name to that table and column.
C3_RelationshipsMatchForeignKeys ==
  calls = 1 =>
    /\ \A r \in 1..Len(parsed.relationships) :
         Cardinality(FieldsHolding(parsed, parsed.relationships[r])) = 1
    /\ \A tf \in FieldsOf(parsed) :
         FieldOf(parsed, tf).foreignKey # Undefined
         => \E r \in RelationshipsFrom(parsed, TableOf(parsed, tf).name,
                                       FieldOf(parsed, tf).name) :
              FieldOf(parsed, tf).foreignKey
                = Some([table |-> parsed.relationships[r].toTable,
                        column |-> parsed.relationships[r].toField])

\* an input that declares a table with a REFERENCES column twice was parsed
C3_TableDeclaredTwice ==
  /\ calls = 1
  /\ \E t, u \in 1..Len(parsed.tables) :
       /\ t # u
       /\ parsed.tables[t].name = parsed.tables[u].name
       /\ \E f \in 1..Len(parsed.tables[t].fields) :
            declared.tables[t].fields[f].foreignKey # Undefined

(***************************************************************************)
(* C4, C5: inferred foreign keys                                           *)
(***************************************************************************)
\* the field as its clause declares it, before inference
DeclaredField(tf) == FieldOf(declared, tf)

\* a non-primary-key field named X_id whose clause has no REFERENCES
IsCandidate(tf) ==
  /\ endsWith(FieldOf(parsed, tf).name, "_id")
  /\ ~FieldOf(parsed, tf).primaryKey
  /\ DeclaredField(tf).foreignKey = Undefined

\* X of a field named X_id
Stem(fieldName) == SubSeq(fieldName, 1, Len(fieldName) - 3)

\* a table is named X or Xs
NamedFor(tableName, fieldName) ==
  tableName = Stem(fieldName) \/ tableName = Stem(fieldName) \o "s"

\* C4: a non-primary-key field named X_id with no REFERENCES clause keeps
\* foreignKey undefined and yields no relationship when no parsed table is
\* named X or Xs, whatever other tables the input declares.
C4_NoTableNoForeignKey ==
  calls = 1 =>
    \A tf \in FieldsOf(parsed) :
      (/\ IsCandidate(tf)
       /\ \A k \in 1..Len(parsed.tables) :
            ~NamedFor(parsed.tables[k].name, FieldOf(parsed, tf).name))
      => /\ FieldOf(parsed, tf).foreignKey = Undefined
         /\ RelationshipsFrom(parsed, TableOf(parsed, tf).name,
                              FieldOf(parsed, tf).name) = {}

\* a candidate field was parsed with no table named X or Xs in the input
C4_CandidateWithoutTable ==
  /\ calls = 1
  /\ \E tf \in FieldsOf(parsed) :
       /\ IsCandidate(tf)
       /\ FieldOf(parsed, tf).name = "user_id"
       /\ \A k \in 1..Len(parsed.tables) :
            ~NamedFor(parsed.tables[k].name, FieldOf(parsed, tf).name)

\* the relationship and the foreignKey C5 expects for field tf and table k
InferredTo(tf, k) ==
  /\ \E r \in RelationshipsFrom(parsed, TableOf(parsed, tf).name,
                                FieldOf(parsed, tf).name) :
       /\ parsed.relationships[r].toTable = parsed.tables[k].name
       /\ parsed.relationships[r].toField = primaryKeyName(parsed.tables[k])
  /\ FieldOf(parsed, tf).foreignKey
       = Some([table |-> parsed.tables[k].name,
               column |-> primaryKeyName(parsed.tables[k])])

\* C5 as stated: when a table T named X or Xs has a primary-key field p and
\* another table F has a non-primary-key field X_id without REFERENCES,
\* parseSQL returns the relationship {F, X_id, T, p} and sets the field's
\* foreignKey to {T, p}.
C5_NamedTableGivesForeignKey ==
  calls = 1 =>
    \A tf \in FieldsOf(parsed) : \A k \in 1..Len(parsed.tables) :
      (/\ IsCandidate(tf)
       /\ NamedFor(parsed.tables[k].name, FieldOf(parsed, tf).name)
       /\ hasPrimaryKey(parsed.tables[k])
       /\ parsed.tables[k].name # TableOf(parsed, tf).name)
      => InferredTo(tf, k)

\* the names the matching compares: the name of a table, that name without
\* its last character, and both followed by "_id"
AcceptedNames(tableName) ==
  {tableName, dropLast(tableName), tableName \o "_id", dropLast(tableName) \o "_id"}

\* the matching accepts a table for a field named X_id
Accepts(tableName, fieldName) ==
  AcceptedNames(tableName)
    \cap {Stem(fieldName), Stem(fieldName) \o "s", fieldName} # {}

\* no table with a primary key declared before table k is accepted
IsFirstAccepted(tf, k) ==
  \A e \in 1..(k - 1) :
    hasPrimaryKey(parsed.tables[e])
    => ~Accepts(parsed.tables[e].name, FieldOf(parsed, tf).name)

\* the table name and the field name of tf are declared once
DeclaredOnce(tf) ==
  \A other \in FieldsOf(parsed) :
    (/\ TableOf(parsed, other).name = TableOf(parsed, tf).name
     /\ FieldOf(parsed, other).name = FieldOf(parsed, tf).name)
    => other = tf

\* table k is the only declaration of its name
TableDeclaredOnce(k) ==
  \A e \in 1..Len(parsed.tables) : parsed.tables[e].name = parsed.tables[k].name => e = k

\* What the code gives in the case of C5 (first match wins, with the names
\* the matching accepts): when T, named X or Xs, has a primary key and no
\* table with a primary key declared before T is accepted by the matching for
\* X_id, then for a non-primary-key field X_id without REFERENCES of any table
\* F, parseSQL returns a relationship from F.X_id to T; and when F.X_id and T
\* are declared once, that relationship is {F, X_id, T, p} and the field's
\* foreignKey is {T, p}, p being the first primary-key field of T.
C5_FirstAcceptedTableGivesForeignKey ==
  calls = 1 =>
    \A tf \in FieldsOf(parsed) : \A k \in 1..Len(parsed.tables) :
      (/\ IsCandidate(tf)
       /\ NamedFor(parsed.tables[k].name, FieldOf(parsed, tf).name)
       /\ hasPrimaryKey(parsed.tables[k])
       /\ IsFirstAccepted(tf, k))
      => /\ \E r \in RelationshipsFrom(parsed, TableOf(parsed, tf).name,
                                       FieldOf(parsed, tf).name) :
              parsed.relationships[r].toTable = parsed.tables[k].name
         /\ DeclaredOnce(tf) /\ TableDeclaredOnce(k) => InferredTo(tf, k)

\* posts.user_id was inferred to users
C5_InferredToUsers ==
  /\ calls = 1
  /\ \E tf \in FieldsOf(parsed) : \E k \in 1..Len(parsed.tables) :
       /\ IsCandidate(tf)
       /\ TableOf(parsed, tf).name = "posts"
       /\ parsed.tables[k].name = "users"
       /\ IsFirstAccepted(tf, k)
       /\ DeclaredOnce(tf)
       /\ TableDeclaredOnce(k)
       /\ InferredTo(tf, k)

(***************************************************************************)
(* C6: an explicit reference is not inferred again                         *)
(***************************************************************************)
\* a field named X_id whose clause carries REFERENCES table(column)
IsExplicit(tf) ==
  /\ endsWith(FieldOf(parsed, tf).name, "_id")
  /\ DeclaredField(tf).foreignKey # Undefined

\* the fields of a table name and a field name that hold a foreignKey
ReferencingFields(tableName, fieldName) ==
  {tf \in FieldsOf(parsed) :
     /\ TableOf(parsed, tf).name = tableName
     /\ FieldOf(parsed, tf).name = fieldName
     /\ FieldOf(parsed, tf).foreignKey # Undefined}

\* C6: a field that ends in _id and carries an inline REFERENCES clause keeps
\* the explicitly referenced table and column as its foreignKey, the explicit
\* relationship is returned, and inference adds none for it: its table and
\* name have one relationship for each field of that name that references
\* (exactly one relationship when the name is declared once), even when the
\* _id name matches another table.
C6_ExplicitNotInferredAgain ==
  calls = 1 =>
    \A tf \in FieldsOf(parsed) :
      IsExplicit(tf)
      => /\ FieldOf(parsed, tf).foreignKey = DeclaredField(tf).foreignKey
         /\ \E r \in RelationshipsFrom(parsed, TableOf(parsed, tf).name,
                                       FieldOf(parsed, tf).name) :
              FieldOf(parsed, tf).foreignKey
                = Some([table |-> parsed.relationships[r].toTable,
                        column |-> parsed.relationships[r].toField])
         /\ Cardinality(RelationshipsFrom(parsed, TableOf(parsed, tf).name,
                                          FieldOf(parsed, tf).name))
              = Cardinality(ReferencingFields(TableOf(parsed, tf).name,
                                              FieldOf(parsed, tf).name))
         /\ DeclaredOnce(tf)
            => Cardinality(RelationshipsFrom(parsed, TableOf(parsed, tf).name,
                                             FieldOf(parsed, tf).name)) = 1

\* logs.user_id REFERENCES Accounts (ID) was parsed in an input where the
\* name user_id matches the table users
C6_ExplicitWhereNameMatches ==
  /\ calls = 1
  /\ \E tf \in FieldsOf(parsed) : \E k \in 1..Len(parsed.tables) :
       /\ IsExplicit(tf)
       /\ DeclaredOnce(tf)
       /\ FieldOf(parsed, tf).foreignKey = Some([table |-> "accounts", column |-> "id"])
       /\ hasPrimaryKey(parsed.tables[k])
       /\ Accepts(parsed.tables[k].name, FieldOf(parsed, tf).name)

(***************************************************************************)
(* C7: best-effort parsing                                                 *)
(***************************************************************************)
\* a statement that, alone, is parsed into a table
IsWellFormed(statement) == Len(parseStatements(Statements[statement]).tables) = 1

\* what a clause declares of a field
Declaration(field) ==
  [name |-> field.name, type |-> field.type, nullable |-> field.nullable,
   primaryKey |-> field.primaryKey, defaultValue |-> field.defaultValue]

Declarations(table) ==
  [name |-> table.name,
   fields |-> [f \in 1..Len(table.fields) |-> Declaration(table.fields[f])]]

\* the table of a well-formed statement parsed alone
OwnTable(statement) == Declarations(parseStatements(Statements[statement]).tables[1])

\* C7: parseSQL returns a schema for every input; a statement that does not
\* match the CREATE TABLE shape contributes no table and every well-formed
\* statement, also one that follows it, is parsed into its own table with its
\* own fields: the tables returned are those of the well-formed statements,
\* in order.
C7_MalformedStatementSkipped ==
  calls = 1 =>
    /\ Len(parsed.tables) = Len(SelectSeq(script, IsWellFormed))
    /\ \A t \in 1..Len(parsed.tables) :
         t <= Len(SelectSeq(script, IsWellFormed))
         => Declarations(parsed.tables[t]) = OwnTable(SelectSeq(script, IsWellFormed)[t])

\* an input with a malformed statement before a well-formed one was parsed
C7_MalformedThenWellFormed ==
  /\ calls = 1
  /\ \E i, j \in 1..Len(script) :
       i < j /\ ~IsWellFormed(script[i]) /\ IsWellFormed(script[j])

(***************************************************************************)
(* C8: the end-to-end scenario                                             *)
(***************************************************************************)
\* the relationship of the scenario
PostsToUsers ==
  [fromTable |-> "posts", fromField |-> "user_id", toTable |-> "users", toField |-> "id"]

\* C8: parsing EndToEndSQL gives 2 tables and exactly 1 relationship,
\* posts.user_id to users.id, that no REFERENCES declared (it is inferred);
\* the diagram loaded from it holds the 2 tables and that relationship; and
\* the text exported from it for sqlite has the column
\* 'user_id INTEGER REFERENCES users(id)', with no NOT NULL.
C8_EndToEndScenario ==
  /\ calls > 0 /\ sql = EndToEndSQL
     => /\ Len(parsed.tables) = 2
        /\ parsed.relationships = <<PostsToUsers>>
        /\ declared.relationships = <<>>
  /\ loaded = EndToEndSQL
     => /\ [t \in 1..Len(diagram.tables) |-> diagram.tables[t].name] = <<"users", "posts">>
        /\ Len(diagram.relationships) = 1
        /\ \A r \in 1..Len(diagram.relationships) :
             [k \in DOMAIN PostsToUsers |-> diagram.relationships[r][k]] = PostsToUsers
  /\ exported.made /\ exported.source = EndToEndSQL /\ exported.provider = "sqlite"
     => /\ includes(exported.text, "\n    user_id INTEGER REFERENCES users(id),\n")
        /\ Cardinality({i \in 1..Len(exported.text) :
                          startsWithAt(exported.text, " user_id ", i)}) = 1

\* the scenario was run: parsed, loaded and exported for sqlite
C8_ScenarioExported ==
  /\ sql = EndToEndSQL
  /\ loaded = EndToEndSQL
  /\ exported.made
  /\ exported.source = EndToEndSQL
  /\ exported.provider = "sqlite"

(***************************************************************************)
(* C9: splitting a table body into clauses                                 *)
(***************************************************************************)
\* the parentheses open before index i
DepthAt(body, i) ==
  Cardinality({k \in 1..(i - 1) : CharAt(body, k) = "("})
  - Cardinality({k \in 1..(i - 1) : CharAt(body, k) = ")"})

\* index i is inside a string literal '...'
InLiteral(body, i) ==
  Cardinality({k \in 1..(i - 1) : CharAt(body, k) = "'"}) % 2 = 1

\* the parentheses are balanced: every ')' closes a '(' and none stays open;
\* the string literals are closed and hold no parenthesis
IsBalanced(body) ==
  /\ \A i \in 1..(Len(body) + 1) : DepthAt(body, i) >= 0
  /\ DepthAt(body, Len(body) + 1) = 0
  /\ ~InLiteral(body, Len(body) + 1)
  /\ \A i \in 1..Len(body) : CharAt(body, i) \in {"(", ")"} => ~InLiteral(body, i)

\* the commas that separate the definitions of a body
SeparatingCommas(body) ==
  {i \in 1..Len(body) :
     CharAt(body, i) = "," /\ DepthAt(body, i) = 0 /\ ~InLiteral(body, i)}

\* the column and constraint definitions of a body: the pieces between its
\* separating commas that are not blank, as the indices they start after
DefinitionsOf(body) ==
  LET cuts == {0} \cup SeparatingCommas(body) \cup {Len(body) + 1}
  IN  {a \in cuts \ {Len(body) + 1} :
         \E i \in (a + 1)..Len(body) :
           /\ ~IsSpace(CharAt(body, i))
           /\ \A c \in cuts : ~(a < c /\ c <= i)}

\* C9: the clause 'price NUMERIC(10,2) NOT NULL' stays one clause, and for
\* every body with balanced parentheses splitColumnDefinitions returns as
\* many clauses as the body has column and constraint definitions.
C9_ClauseCountIsDefinitionCount ==
  splitResult # Undefined =>
    /\ splitInput = "price NUMERIC(10,2) NOT NULL" => splitResult[1] = <<splitInput>>
    /\ IsBalanced(splitInput)
       => Len(splitResult[1]) = Cardinality(DefinitionsOf(splitInput))

\* a body with balanced parentheses and several definitions, one of them
\* with a comma inside parentheses, was split
C9_BalancedBodySplit ==
  /\ splitResult # Undefined
  /\ IsBalanced(splitInput)
  /\ Cardinality(DefinitionsOf(splitInput)) = 3
  /\ \E i \in 1..Len(splitInput) : CharAt(splitInput, i) = "," /\ DepthAt(splitInput, i) > 0

IsColumn(clause) == parseColumnDefinition(trim(clause)) # Undefined

\* the clause of the input that field tf was parsed from: the fields of a
\* table are its column clauses, in order
ClauseOf(matches, tf) ==
  trim(SelectSeq(splitColumnDefinitions(matches[tf[1]].body), IsColumn)[tf[2]])

\* C11: every field parseSQL returns has nullable = true unless its clause
\* contains NOT NULL or the field is a primary key; so every field with
\* primaryKey = true has nullable = false.
C11_NullableUnlessNotNullOrPrimaryKey ==
  calls = 1 =>
    LET matches == createTableMatches(sql)
    IN  \A tf \in FieldsOf(parsed) :
          FieldOf(parsed, tf).nullable
            = ~(\/ includes(toUpperCase(ClauseOf(matches, tf)), "NOT NULL")
                \/ FieldOf(parsed, tf).primaryKey)

\* a primary-key column declared without NOT NULL was parsed
C11_PrimaryKeyWithoutNotNull ==
  /\ calls = 1
  /\ \E tf \in FieldsOf(parsed) :
       /\ FieldOf(parsed, tf).primaryKey
       /\ ~includes(toUpperCase(ClauseOf(createTableMatches(sql), tf)), "NOT NULL")

\* the token that follows the word DEFAULT (in any letter case) and white
\* space in a clause, as written: the characters up to the next white space
\* or comma; Undefined when no DEFAULT is followed by a token
DefaultAsWritten(clause) ==
  LET upper == toUpperCase(clause)
      at == First({i \in 1..Len(clause) :
                     /\ startsWithAt(upper, "DEFAULT", i)
                     /\ i + 7 <= Len(clause)
                     /\ IsSpace(CharAt(clause, i + 7))
                     /\ \E k \in (i + 8)..Len(clause) :
                          ~IsSpace(CharAt(clause, k)) /\ CharAt(clause, k) # ","
                          /\ \A j \in (i + 8)..(k - 1) : IsSpace(CharAt(clause, j))})
      from == SkipWhile(clause, at + 7, IsSpace)
  IN  IF at = 0 THEN Undefined
      ELSE Some(SubSeq(clause, from,
                       SkipWhile(clause, from, LAMBDA c : ~IsSpace(c) /\ c # ",") - 1))

\* C12: the defaultValue of a field whose clause has DEFAULT followed by a
\* token is that token exactly as the input writes it, same characters and
\* same letter case.
C12_DefaultValueVerbatim ==
  calls = 1 =>
    LET matches == createTableMatches(sql)
    IN  \A tf \in FieldsOf(parsed) :
          DefaultAsWritten(ClauseOf(matches, tf)) # Undefined
          => FieldOf(parsed, tf).defaultValue = DefaultAsWritten(ClauseOf(matches, tf))

\* a column whose default is written with lower-case letters was parsed
C12_LowerCaseDefaultParsed ==
  /\ calls = 1
  /\ \E tf \in FieldsOf(parsed) :
       /\ FieldOf(parsed, tf).name = "name"
       /\ DefaultAsWritten(ClauseOf(createTableMatches(sql), tf)) = Some("'anon'")

(***************************************************************************)
(* C13: the shape of the generated text                                    *)
(***************************************************************************)
\* statement is 'CREATE TABLE IF NOT EXISTS <name> (...);' for a table, with
\* one line for each field of the table, in field order
IsStatementOf(statement, table) ==
  LET head == "CREATE TABLE IF NOT EXISTS " \o table.name \o " (\n"
      lines == SplitOn(SubSeq(statement, Len(head) + 1, Len(statement) - 3), ",\n")
  IN  /\ startsWith(statement, head)
      /\ endsWith(statement, "\n);")
      /\ Len(statement) >= Len(head) + 3
      /\ Len(lines) = Len(table.fields)
      /\ \A f \in 1..Len(lines) :
           startsWith(lines[f], "    " \o table.fields[f].name \o " ")

\* the provider is one of the dialects of the syntax table
IsDialect(provider) == provider \in DOMAIN DATABASE_SYNTAX

\* C13: for a diagram with n >= 1 tables and any dialect, the text that
\* exportSchemaAsSQL returns holds exactly n statements 'CREATE TABLE IF NOT
\* EXISTS <name> (...);', one for each table in the order of the diagram,
\* consecutive statements separated by one blank line, each with the fields
\* of its table in field order.
C13_OneStatementPerTable ==
  (/\ exported.made
   /\ IsDialect(exported.provider)
   /\ Len(diagram.tables) >= 1)
  => LET statements == SplitOn(exported.text, "\n\n")
     IN  /\ Len(statements) = Len(diagram.tables)
         /\ \A t \in 1..Len(statements) :
              IsStatementOf(statements[t], diagram.tables[t])
         /\ Cardinality({i \in 1..Len(exported.text) :
                           startsWithAt(exported.text, "CREATE TABLE", i)})
              = Len(diagram.tables)

\* a diagram of two tables with several fields was exported
C13_TwoTablesExported ==
  /\ exported.made
  /\ IsDialect(exported.provider)
  /\ Len(diagram.tables) = 2
  /\ \A t \in 1..2 : Len(diagram.tables[t].fields) >= 2

(***************************************************************************)
(* C14: identifiers that are not keys of the syntax table                  *)
(***************************************************************************)
\* C14: for every identifier that is not a key of the syntax table,
\* getSyntaxConfig and mapDataType return what they return for postgresql,
\* and so does exportSchemaAsSQL; none of them throws.
C14_UnknownDialectIsPostgres ==
  /\ (mapped.made /\ ~IsDialect(mapped.provider))
     => /\ getSyntaxConfig(mapped.provider) = getSyntaxConfig("postgresql")
        /\ mapped.result # TypeError
        /\ mapped.result = mapDataType(mapped.genericType, "postgresql")
  /\ (exported.made /\ ~IsDialect(exported.provider))
     => /\ exported.text # TypeError
        /\ exported.text = exportSchemaAsSQL(diagram, "postgresql")

\* a type was mapped for an identifier that is not a key of the syntax table
C14_UnknownDialectMapped ==
  /\ mapped.made
  /\ ~IsDialect(mapped.provider)
  /\ mapped.genericType = "boolean"

(***************************************************************************)
(* C15: the type mapping of the three dialects                             *)
(***************************************************************************)
\* the logical type a token spells, in lower case
LogicalTypes == {"text", "int8", "integer", "boolean", "timestamp", "numeric"}

\* the table of the spec: the type of each dialect for each logical type
MappingTable ==
  [postgresql |-> [text |-> "TEXT", int8 |-> "INTEGER", integer |-> "INTEGER",
                   boolean |-> "BOOLEAN", timestamp |-> "TIMESTAMP",
                   numeric |-> "DECIMAL"],
   mysql |-> [text |-> "TEXT", int8 |-> "INT", integer |-> "INT",
              boolean |-> "BOOLEAN", timestamp |-> "TIMESTAMP", numeric |-> "DECIMAL"],
   sqlite |-> [text |-> "TEXT", int8 |-> "INTEGER", integer |-> "INTEGER",
               boolean |-> "INTEGER", timestamp |-> "TEXT", numeric |-> "REAL"]]

\* the logical type of a token, whatever its letter case ("" when the token
\* spells none of them)
LogicalTypeOf(token) ==
  IF toLowerCase(token) \in LogicalTypes THEN toLowerCase(token) ELSE ""

\* C15: for postgresql, mysql and sqlite and each logical type text,
\* int8/integer, boolean, timestamp and numeric, mapDataType returns the
\* entry of the table, whatever the letter case of the type token.
C15_MappingTable ==
  (/\ mapped.made
   /\ mapped.provider \in DOMAIN MappingTable
   /\ LogicalTypeOf(mapped.genericType) # "")
  => mapped.result = MappingTable[mapped.provider][LogicalTypeOf(mapped.genericType)]

\* a type written in mixed case was mapped for sqlite
C15_MixedCaseMapped ==
  /\ mapped.made
  /\ mapped.provider = "sqlite"
  /\ mapped.genericType = "TimeStamp"
  /\ mapped.result = "TEXT"

(***************************************************************************)
(* C16: the labels supabase and planetscale                                *)
(***************************************************************************)
\* the token spells the logical type timestamp for mapDataType
IsTimestampToken(token) == toLowerCase(token) \in {"timestamp", "datetime"}

\* line is the line plain with the type TIMESTAMP written WITH TIME ZONE
WithTimeZone(line, plain) ==
  \E at \in 1..Len(plain) :
    /\ startsWithAt(plain, " TIMESTAMP", at)
    /\ line = SubSeq(plain, 1, at + 9) \o " WITH TIME ZONE" \o sliceFrom(plain, at + 10)

\* the diagram has a column that mapDataType maps as a timestamp
HasTimestampColumn ==
  \E t \in 1..Len(diagram.tables) : \E f \in 1..Len(diagram.tables[t].fields) :
    IsTimestampToken(diagram.tables[t].fields[f].type)

\* C16 as stated: exportSchemaAsSQL returns for supabase the SQL of
\* postgresql and for planetscale the SQL of mysql, and mapDataType agrees
\* between each label and its family for every type token.
C16_AliasesGiveFamilySQL ==
  /\ mapped.made /\ mapped.provider = "supabase"
     => mapped.result = mapDataType(mapped.genericType, "postgresql")
  /\ mapped.made /\ mapped.provider = "planetscale"
     => mapped.result = mapDataType(mapped.genericType, "mysql")
  /\ exported.made /\ exported.provider = "supabase"
     => exported.text = exportSchemaAsSQL(diagram, "postgresql")
  /\ exported.made /\ exported.provider = "planetscale"
     => exported.text = exportSchemaAsSQL(diagram, "mysql")

\* C16, amended: planetscale gives the SQL and the types of mysql. supabase
\* gives those of postgresql except for the logical type timestamp (tokens
\* timestamp and datetime, in any letter case): mapDataType returns
\* 'TIMESTAMP WITH TIME ZONE' where postgresql gives 'TIMESTAMP', and the
\* exported text differs from that of postgresql in the lines of such
\* columns only, TIMESTAMP being followed by WITH TIME ZONE.
C16_AliasesButTimestamp ==
  /\ mapped.made /\ mapped.provider = "planetscale"
     => mapped.result = mapDataType(mapped.genericType, "mysql")
  /\ mapped.made /\ mapped.provider = "supabase"
     => IF IsTimestampToken(mapped.genericType)
        THEN /\ mapped.result = "TIMESTAMP WITH TIME ZONE"
             /\ mapDataType(mapped.genericType, "postgresql") = "TIMESTAMP"
        ELSE mapped.result = mapDataType(mapped.genericType, "postgresql")
  /\ exported.made /\ exported.provider = "planetscale"
     => exported.text = exportSchemaAsSQL(diagram, "mysql")
  /\ exported.made /\ exported.provider = "supabase"
     => LET lines == SplitOn(exported.text, "\n")
            plain == SplitOn(exportSchemaAsSQL(diagram, "postgresql"), "\n")
        IN  /\ Len(lines) = Len(plain)
            /\ \A i \in 1..Len(lines) :
                 lines[i] = plain[i] \/ WithTimeZone(lines[i], plain[i])
            /\ ~HasTimestampColumn => exported.text = exportSchemaAsSQL(diagram, "postgresql")

\* a diagram with a timestamp column was exported for supabase
C16_TimestampForSupabase ==
  /\ exported.made
  /\ exported.provider = "supabase"
  /\ Len(diagram.tables) = 2
  /\ HasTimestampColumn
  /\ includes(exported.text, " TIMESTAMP WITH TIME ZONE")

(***************************************************************************)
(* C17: the constraints of a column                                        *)
(***************************************************************************)
\* the line of field f of table t in the exported text
ColumnLine(t, f) == SplitOn(SplitOn(exported.text, "\n\n")[t], "\n")[f + 1]

\* the columns of the diagram, as pairs of a table and a field index
Columns ==
  UNION {{<<t, f>> : f \in 1..Len(diagram.tables[t].fields)} :
           t \in 1..Len(diagram.tables)}

\* the field type is one that a primary key auto-increments for
IsAutoIncrementType(type) == toLowerCase(type) \in {"int8", "integer", "serial"}

\* C17: in the exported text of any dialect, a primary-key field of type
\* int8/integer/serial is rendered with the auto-increment phrase of the
\* dialect, any other primary-key field with its mapped type followed by
\* PRIMARY KEY, a field that is no primary key with its mapped type; the text
\* of a column contains PRIMARY KEY exactly when the field is a primary key,
\* and NOT NULL exactly when it is not nullable and not a primary key.
C17_ConstraintRendering ==
  (exported.made /\ IsDialect(exported.provider))
  => \A tf \in Columns :
       LET field == diagram.tables[tf[1]].fields[tf[2]]
           line == ColumnLine(tf[1], tf[2])
           head == "    " \o field.name \o " "
           type == mapDataType(field.type, exported.provider)
           config == getSyntaxConfig(exported.provider)
       IN  /\ startsWith(line,
                IF field.isPrimaryKey
                THEN IF IsAutoIncrementType(field.type)
                     THEN head \o config.autoIncrement.syntax
                     ELSE head \o type \o " PRIMARY KEY"
                ELSE head \o type)
           /\ includes(line, "PRIMARY KEY") <=> field.isPrimaryKey
           /\ includes(line, "NOT NULL") <=> (~field.nullable /\ ~field.isPrimaryKey)

\* a field of type serial that is no primary key was exported for sqlite
C17_SerialColumnForSqlite ==
  /\ exported.made
  /\ exported.provider = "sqlite"
  /\ \E tf \in Columns :
       /\ ~diagram.tables[tf[1]].fields[tf[2]].isPrimaryKey
       /\ diagram.tables[tf[1]].fields[tf[2]].type = "serial"
       /\ includes(ColumnLine(tf[1], tf[2]), "PRIMARY KEY")

(***************************************************************************)
(* C18: the foreign-key clause of a column                                 *)
(***************************************************************************)
\* the text of line from its first ' REFERENCES ' on, without the comma that
\* ends the line ("" when the line has none)
ReferencesClause(line) ==
  LET at == indexOfFrom(line, " REFERENCES ", 1)
      end == IF endsWith(line, ",") THEN Len(line) - 1 ELSE Len(line)
  IN  IF at = 0 THEN "" ELSE SubSeq(line, at, end)

\* the clause of field f of table t in a generated text
ClauseIn(text, t, f) == ReferencesClause(SplitOn(SplitOn(text, "\n\n")[t], "\n")[f + 1])

\* the relationships of the diagram from field f of table t
RelationshipsOf(t, f) ==
  {r \in 1..Len(diagram.relationships) :
     /\ diagram.relationships[r].fromTable = diagram.tables[t].name
     /\ diagram.relationships[r].fromField = diagram.tables[t].fields[f].name}

\* C18: in the exported text a column carries a clause 'REFERENCES
\* <toTable>(<toField>)' exactly when the diagram has a relationship from
\* its table and field, the clause being that of such a relationship; it
\* carries at most one clause; and the clause has the same text for
\* postgresql, mysql and sqlite.
C18_ReferencesWhenRelated ==
  (exported.made /\ IsDialect(exported.provider))
  => \A tf \in Columns :
       LET clause == ClauseIn(exported.text, tf[1], tf[2])
           line == ColumnLine(tf[1], tf[2])
       IN  /\ clause # "" <=> RelationshipsOf(tf[1], tf[2]) # {}
           /\ clause # ""
              => \E r \in RelationshipsOf(tf[1], tf[2]) :
                   clause = " REFERENCES " \o diagram.relationships[r].toTable
                            \o "(" \o diagram.relationships[r].toField \o ")"
           /\ Cardinality({i \in 1..Len(line) : startsWithAt(line, "REFERENCES", i)}) <= 1
           /\ \A dialect \in {"postgresql", "mysql", "sqlite"} :
                ClauseIn(exportSchemaAsSQL(diagram, dialect), tf[1], tf[2]) = clause

\* a diagram with two relationships from one field was exported: the column
\* carries the clause of the first
C18_RelatedColumnsExported ==
  /\ exported.made
  /\ IsDialect(exported.provider)
  /\ \E tf \in Columns :
       /\ Cardinality(RelationshipsOf(tf[1], tf[2])) = 2
       /\ ClauseIn(exported.text, tf[1], tf[2]) = " REFERENCES owners(id)"

(***************************************************************************)
(* C19: the stem of a candidate field                                      *)
(***************************************************************************)
\* the relationships of parsed from field tf that its clause did not declare
InferredFrom(tf) ==
  IF IsCandidate(tf)
  THEN RelationshipsFrom(parsed, TableOf(parsed, tf).name, FieldOf(parsed, tf).name)
  ELSE {}

\* C19: for a candidate field the stem that inference uses is the field name
\* with only its trailing '_id' removed, also when '_id' occurs earlier in
\* the name ('a_idea_id' gives 'a_idea'), and matching is decided on that
\* stem: the table an inferred relationship refers to is accepted for the
\* stem, the stem followed by 's', or the field name.
C19_StemIsNameWithoutSuffix ==
  calls = 1 =>
    \A tf \in FieldsOf(parsed) :
      IsCandidate(tf)
      => /\ potentialTableName(FieldOf(parsed, tf).name) = Stem(FieldOf(parsed, tf).name)
         /\ \A r \in InferredFrom(tf) :
              Accepts(parsed.relationships[r].toTable, FieldOf(parsed, tf).name)

\* a candidate field with '_id' inside its name was parsed
C19_InnerIdFieldParsed ==
  /\ calls = 1
  /\ \E tf \in FieldsOf(parsed) :
       /\ IsCandidate(tf)
       /\ FieldOf(parsed, tf).name = "a_idea_id"
       /\ Stem(FieldOf(parsed, tf).name) = "a_idea"
       /\ InferredFrom(tf) # {}

(***************************************************************************)
(* C20: the first matching table                                           *)
(***************************************************************************)
\* the tables of parsed with a primary key whose name variations match the
\* field, as indices
MatchingTables(tf) ==
  {k \in 1..Len(parsed.tables) :
     /\ hasPrimaryKey(parsed.tables[k])
     /\ variationMatches(parsed.tables[k].name, FieldOf(parsed, tf).name)}

\* C20: for each candidate field inference creates at most one relationship;
\* there is one exactly when some table with a detected primary key matches
\* the field, and its target is the earliest declared of these tables; a
\* table without a detected primary key is never the target.
C20_FirstMatchWins ==
  calls = 1 =>
    \A tf \in FieldsOf(parsed) :
      IsCandidate(tf)
      => /\ Cardinality(InferredFrom(tf)) <= 1
         /\ InferredFrom(tf) # {} <=> MatchingTables(tf) # {}
         /\ \A r \in InferredFrom(tf) :
              /\ parsed.relationships[r].toTable
                   = parsed.tables[First(MatchingTables(tf))].name
              /\ \E k \in 1..Len(parsed.tables) :
                   /\ parsed.tables[k].name = parsed.relationships[r].toTable
                   /\ hasPrimaryKey(parsed.tables[k])

\* a candidate field was parsed that two tables with a primary key match,
\* and one whose only matching table has no detected primary key
C20_SeveralTablesMatch ==
  /\ calls = 1
  /\ \E tf \in FieldsOf(parsed) :
       /\ IsCandidate(tf)
       /\ Cardinality({parsed.tables[k].name : k \in MatchingTables(tf)}) >= 2
       /\ InferredFrom(tf) # {}
  /\ \E tf \in FieldsOf(parsed) :
       /\ IsCandidate(tf)
       /\ FieldOf(parsed, tf).name = "log_id"
       /\ \E k \in 1..Len(parsed.tables) : parsed.tables[k].name = "logs"
       /\ InferredFrom(tf) = {}

(***************************************************************************)
(* One call of the parser on tables made of clauses                        *)
(***************************************************************************)
\* the clauses the body of the table items is made of
Clauses ==
  <<"id INT",
    "user_id INT REFERENCES accounts(id)",
    "org_id INT REFERENCES Orgs (ID)",
    "constraint_type TEXT NOT NULL",
    "PRIMARY KEY (id)",
    "CONSTRAINT fk_user FOREIGN KEY (user_id) REFERENCES users (id)",
    "foreign key (owner_id) references owners(id)",
    "owner_id INT">>

\* the clauses that are table-level constraints
ConstraintClauses == {c \in 1..Len(Clauses) :
                        \/ startsWith(toUpperCase(Clauses[c]), "CONSTRAINT ")
                        \/ startsWith(toUpperCase(Clauses[c]), "PRIMARY KEY")
                        \/ startsWith(toUpperCase(Clauses[c]), "FOREIGN KEY")}

\* the longest body, in clauses
MaxClauses == 3

\* the bodies: up to MaxClauses clauses, in any order, repeats allowed
ClauseScripts == UNION {[1..n -> 1..Len(Clauses)] : n \in 0..MaxClauses}

\* the input for a body: a table with a candidate field, the table it names,
\* which has an explicit reference, and the table items with the body
TablesText(s) ==
  "CREATE TABLE notes (owner_id INT);\n"
  \o "CREATE TABLE owners (id INT PRIMARY KEY, team_id INT REFERENCES teams(id));\n"
  \o "CREATE TABLE items (" \o join([k \in 1..Len(s) |-> Clauses[s[k]]], ", ") \o ");"

InitClauses ==
  script \in ClauseScripts /\ ParserIdle /\ SplitIdle /\ DiagramIdle /\ MapperIdle
  /\ ServicesIdle

NextClauses == calls = 0 /\ ParseSQL(TablesText(script))

SpecClauses == InitClauses /\ [][NextClauses]_vars

(***************************************************************************)
(* C21: the order of the relationships                                     *)
(***************************************************************************)
\* the pairs of a set of <<table, field>> indices, in table then field order
InOrder(pairs) ==
  [k \in 1..Cardinality(pairs) |->
     CHOOSE tf \in pairs :
       Cardinality({other \in pairs :
                      \/ other[1] < tf[1]
                      \/ other[1] = tf[1] /\ other[2] < tf[2]}) = k - 1]

\* the relationship of field tf of a schema, from its foreignKey
RelationshipOf(schema, tf) ==
  [fromTable |-> TableOf(schema, tf).name,
   fromField |-> FieldOf(schema, tf).name,
   toTable |-> FieldOf(schema, tf).foreignKey[1].table,
   toField |-> FieldOf(schema, tf).foreignKey[1].column]

\* the fields whose clause has a REFERENCES
ExplicitFields ==
  {tf \in FieldsOf(declared) : DeclaredField(tf).foreignKey # Undefined}

\* the candidate fields that inference gave a foreignKey
InferredFields ==
  {tf \in FieldsOf(parsed) : IsCandidate(tf) /\ FieldOf(parsed, tf).foreignKey # Undefined}

\* C21: the relationship list that parseSQL returns holds the explicit
\* relationships, in table-declaration order then field order, followed by
\* the inferred relationships, in table then field order.
C21_ExplicitThenInferred ==
  calls = 1 =>
    parsed.relationships
      = [k \in 1..Cardinality(ExplicitFields) |->
           RelationshipOf(declared, InOrder(ExplicitFields)[k])]
        \o [k \in 1..Cardinality(InferredFields) |->
              RelationshipOf(parsed, InOrder(InferredFields)[k])]

\* an input was parsed with explicit relationships from two tables, two of
\* them from one table, and inferred relationships from two tables, the
\* first from a table declared before those of the explicit ones
C21_BothKindsParsed ==
  /\ calls = 1
  /\ \E a, b, c \in ExplicitFields : a[1] < b[1] /\ b[1] = c[1] /\ b[2] < c[2]
  /\ \E i, j \in InferredFields : \E a \in ExplicitFields : i[1] < a[1] /\ a[1] <= j[1]

(***************************************************************************)
(* C22: table-level constraints                                            *)
(***************************************************************************)
\* the clause at index c of Clauses is a column definition
IsColumnClause(c) == c \notin ConstraintClauses

\* script holds the clause
HasClause(clause) == \E k \in 1..Len(script) : Clauses[script[k]] = clause

\* C22: a clause that begins with CONSTRAINT, PRIMARY KEY or FOREIGN KEY adds
\* no field and no relationship and leaves the primaryKey, nullable and
\* foreignKey of every column as they are without it: the input parses to
\* what the input without its table-level constraints parses to.
C22_ConstraintsDropped ==
  calls = 1 => parsed = parseSQL(TablesText(SelectSeq(script, IsColumnClause)))

\* a table was parsed whose body holds PRIMARY KEY (id) with the column id,
\* and a FOREIGN KEY constraint
C22_ConstraintsWithColumnParsed ==
  /\ calls = 1
  /\ HasClause("id INT")
  /\ HasClause("PRIMARY KEY (id)")
  /\ \/ HasClause("foreign key (owner_id) references owners(id)")
     \/ HasClause("CONSTRAINT fk_user FOREIGN KEY (user_id) REFERENCES users (id)")
  /\ \A f \in 1..Len(parsed.tables[3].fields) : ~parsed.tables[3].fields[f].primaryKey

(***************************************************************************)
(* C23: a field for every column definition                                *)
(***************************************************************************)
\* the column definitions of the body, in order, as indices of Clauses
ColumnClauses == SelectSeq(script, IsColumnClause)

\* the table items of the parsed input
ItemsTable == parsed.tables[Len(parsed.tables)]

\* C23: the parsed table has one field for each clause of its body that is a
\* column definition and no table-level constraint, in order, named by the
\* lower-cased first token of the clause, also when that name starts with
\* the letters 'constraint'.
C23_FieldForEveryColumn ==
  calls = 1 =>
    /\ Len(parsed.tables) = 3
    /\ Len(ItemsTable.fields) = Len(ColumnClauses)
    /\ \A f \in 1..Len(ColumnClauses) :
         f <= Len(ItemsTable.fields)
         => ItemsTable.fields[f].name
              = toLowerCase(splitSpaces(Clauses[ColumnClauses[f]])[1])

\* a table with the column constraint_type was parsed
C23_ConstraintTypeColumnParsed ==
  /\ calls = 1
  /\ HasClause("constraint_type TEXT NOT NULL")
  /\ HasClause("id INT")
  /\ \A f \in 1..Len(ItemsTable.fields) : ItemsTable.fields[f].name # "constraint_type"

(***************************************************************************)
(* C24: import of SQL text                                                 *)
(***************************************************************************)
InitImport == InitParser

NextImport == ~imported.made /\ ImportFromSQL(ScriptText(script))

SpecImport == InitImport /\ [][NextImport]_vars

\* every statement of the input is a well-formed CREATE TABLE statement
AllWellFormed == Len(script) >= 1 /\ \A k \in 1..Len(script) : IsWellFormed(script[k])

\* the tables and the relationships of a diagram, as a ParsedSchema names them
NamesOf(diagramData) ==
  [tables |-> [t \in 1..Len(diagramData.tables) |-> diagramData.tables[t].name],
   relationships |->
     [r \in 1..Len(diagramData.relationships) |->
        [fromTable |-> diagramData.relationships[r].fromTable,
         fromField |-> diagramData.relationships[r].fromField,
         toTable |-> diagramData.relationships[r].toTable,
         toField |-> diagramData.relationships[r].toField]]]

\* C24: importFromSQL called with text made of well-formed CREATE TABLE
\* statements resolves, and the diagram then holds the tables and the
\* relationships that parseSQL returns for the text.
C24_ImportOfValidSQLResolves ==
  (imported.made /\ AllWellFormed)
  => /\ imported.resolved
     /\ NamesOf(diagram)
          = NamesOf(updateFromSchema(EmptyDiagram, parseSQL(imported.sql).tables,
                                     parseSQL(imported.sql).relationships, FALSE))

\* importFromSQL was called with two well-formed statements
C24_ValidSQLImported ==
  /\ imported.made
  /\ AllWellFormed
  /\ Len(script) = 2
  /\ imported.sql = ScriptText(script)

(***************************************************************************)
(* C25: the active configuration                                           *)
(***************************************************************************)
\* the ids of the configurations and the settings saved under them
ConfigIds == {"dev", "prod"}

ConfigProviders == {"sqlite", "postgres-local"}

Configs ==
  {[id |-> id, provider |-> provider] : id \in ConfigIds, provider \in ConfigProviders}

NextDatabase ==
  \/ \E config \in Configs : SaveConfig(config)
  \/ \E configId \in ConfigIds : DeleteConfig(configId)
  \/ \E configId \in ConfigIds : SetActiveConfig(configId)
  \/ \E k \in 1..Cardinality(ConfigIds) : GetProvider(k)
  \/ GetActiveProvider

SpecDatabase == Init /\ [][NextDatabase]_vars

\* C25: getActiveConfig() is null or is the configuration currently saved
\* under its id, and the provider getProvider or getActiveProvider returns
\* is built from the configuration saved under that id when it is called.
C25_ActiveConfigIsCurrent ==
  /\ database.activeConfig # Undefined
     => configOfId(database.configs, database.activeConfig[1].id) = database.activeConfig
  /\ (database.returned.made /\ database.returned.provider # Undefined)
     => Some(database.returned.provider[1].config) = database.returned.saved

\* new settings were saved under the id of the active configuration
C25_SavedUnderActiveId ==
  /\ database.activeConfig # Undefined
  /\ \E k \in 1..Len(database.configs) :
       /\ database.configs[k].id = database.activeConfig[1].id
       /\ database.configs[k].provider # database.activeConfig[1].provider

(***************************************************************************)
(* Deployments: configurations are saved and a schema is imported, then    *)
(* the schema is deployed and deployments are rolled back                  *)
(***************************************************************************)
\* the configurations saved: a SQLite one and a PostgreSQL one
DeployConfigs ==
  {[id |-> "dev", provider |-> "sqlite"], [id |-> "prod", provider |-> "postgres-local"]}

\* the schemas deployed: one that validateSql accepts and one with a column
\* type that validateSql of SQLiteProvider and PostgreSQLProvider reports
DeployedSchemas ==
  {SampleSchema("int8", TRUE, FALSE, <<>>), SampleSchema("auto_increment", FALSE, TRUE, <<>>)}

DeploymentOptions ==
  {[useMigrations |-> useMigrations, createBackup |-> FALSE,
    validateBeforeDeploy |-> validateBeforeDeploy] :
     useMigrations \in BOOLEAN, validateBeforeDeploy \in BOOLEAN}

\* the options of the deployments to several environments
EnvironmentOptions == {options \in DeploymentOptions : options.useMigrations}

\* the configIds given to deployToMultipleEnvironments; no configuration is
\* saved under 'staging'
EnvironmentLists == {<<"dev", "prod">>, <<"prod", "staging">>}

\* whether the databases of the deployments execute the statements
Acceptances == {<<TRUE, TRUE>>, <<TRUE, FALSE>>, <<FALSE, TRUE>>}

\* the number of calls of the deployment operations followed
MaxOperations == 2

\* configurations are saved and activated and a schema is imported before
\* the first deployment
NextSetup ==
  \/ \E config \in DeployConfigs :
       /\ ~deployment.made
       /\ configIndex(database.configs, config.id) = 0
       /\ SaveConfig(config)
  \/ \E configId \in ConfigIds : ~deployment.made /\ SetActiveConfig(configId)
  \/ \E importData \in DeployedSchemas : ~deployment.made /\ ImportFromJSON(importData)

NextDeployment ==
  \/ NextSetup
  \/ \E options \in DeploymentOptions, accepts \in BOOLEAN :
       deployment.count < MaxOperations /\ DeploySchema(options, accepts, 1)
  \/ \E configIds \in EnvironmentLists, options \in EnvironmentOptions,
        accepts \in Acceptances :
       /\ deployment.count < MaxOperations
       /\ DeployToMultipleEnvironments(configIds, options, accepts)

SpecDeployment == Init /\ [][NextDeployment]_vars

(***************************************************************************)
(* Rollbacks: schemas are deployed to the active configuration and the     *)
(* deployments are rolled back                                             *)
(***************************************************************************)
\* the options of the deployments that are rolled back
RollbackOptions == {options \in DeploymentOptions : ~options.validateBeforeDeploy}

\* the number of deployments and rollbacks followed
MaxRollbackOperations == 3

NextRollback ==
  \/ NextSetup
  \/ \E options \in RollbackOptions, elapsed \in 0..1 :
       deployment.count < MaxRollbackOperations /\ DeploySchema(options, TRUE, elapsed)
  \/ \E options \in RollbackOptions :
       /\ deployment.count < MaxRollbackOperations
       /\ options.useMigrations
       /\ DeployToMultipleEnvironments(<<"prod", "prod">>, options, <<TRUE, TRUE>>)
  \/ \E accepts \in BOOLEAN :
       deployment.count < MaxRollbackOperations /\ RollbackLastMigration(accepts)

SpecRollback == Init /\ [][NextRollback]_vars

(***************************************************************************)
(* C26: deployments to several environments                                *)
(***************************************************************************)
\* the results are those of a prefix of configIds, in order, and every
\* deployment before the last one succeeded
IsPrefixUpToFailure(results, configIds) ==
  /\ Len(results) <= Len(configIds)
  /\ \A i \in 1..Len(results) :
       /\ results[i].configId = configIds[i]
       /\ i < Len(results) => results[i].success
  /\ Len(results) < Len(configIds) => ~results[Len(results)].success

\* the result is the outcome of a deployment to the configuration of its
\* configId: the configuration deployed to, when there was one, and the
\* configuration of every provider called have that id
IsOutcomeOfOwnConfig(result) ==
  /\ result.target # Undefined => result.target[1].id = result.configId
  /\ \A c \in 1..Len(result.calls) : result.calls[c].config.id = result.configId

\* C26: deployToMultipleEnvironments processes configIds in order and stops
\* after the first failing deployment, so the results are those of a prefix
\* of configIds of which at most the last failed; and the result stored under
\* each configId is the outcome of deploying to the configuration with that
\* id, never to another one, also when no configuration is saved under it.
C26_ResultsOfOwnConfigInOrder ==
  deployment.op = "deployToMultipleEnvironments" =>
    /\ IsPrefixUpToFailure(deployment.results, deployment.configIds)
    /\ \A i \in 1..Len(deployment.results) : IsOutcomeOfOwnConfig(deployment.results[i])

\* 'prod' then 'staging' were deployed to while 'prod' was saved and no
\* configuration was saved under 'staging', and both have a result
C26_UnsavedIdAfterSavedOne ==
  /\ deployment.op = "deployToMultipleEnvironments"
  /\ deployment.configIds = <<"prod", "staging">>
  /\ configIndex(database.configs, "prod") > 0
  /\ configIndex(database.configs, "staging") = 0
  /\ Len(deployment.results) = 2
  /\ deployment.results[1].success

(***************************************************************************)
(* C27: the validation gate of deploySchema                                *)
(***************************************************************************)
\* validateSchema() reports the SQL of the diagram for the active
\* configuration as not valid
ValidationFails ==
  /\ database.activeConfig # Undefined
  /\ ~validateSql(createProvider(database.activeConfig[1]).class,
                  exportSchemaAsSQL(diagram, database.activeConfig[1].provider))

\* the provider methods that change a database
DeployingMethods == {"deploySchema", "applyMigration"}

\* C27: a deploySchema called with validateBeforeDeploy = true while the
\* validation reports the schema as not valid, or called while no
\* configuration is active, returns success = false, calls neither
\* deploySchema nor applyMigration of a provider, and leaves the migration
\* history as it was.
C27_NoDeploymentPastTheGate ==
  (/\ deployment.op = "deploySchema"
   /\ \/ deployment.options.validateBeforeDeploy /\ ValidationFails
      \/ database.activeConfig = Undefined)
  => /\ ~deployment.results[1].success
     /\ \A c \in 1..Len(deployment.results[1].calls) :
          deployment.results[1].calls[c].method \notin DeployingMethods
     /\ migration.history = deployment.historyBefore

\* a schema that the validation reports was deployed without validation,
\* and then deploySchema was called for it with validateBeforeDeploy = true
C27_InvalidSchemaAtTheGate ==
  /\ deployment.op = "deploySchema"
  /\ deployment.options.validateBeforeDeploy
  /\ ValidationFails
  /\ deployment.historyBefore # <<>>
  /\ deployment.results[1].calls # <<>>

(***************************************************************************)
(* C28: rollbacks walk the history backwards                               *)
(***************************************************************************)
\* the entries that the last operation turned from 'applied' to 'pending'
RolledBack ==
  {k \in 1..Len(deployment.historyBefore) :
     /\ k <= Len(migration.history)
     /\ deployment.historyBefore[k].status = "applied"
     /\ migration.history[k].status = "pending"}

\* the entries of the history that are applied
AppliedNow == {k \in 1..Len(migration.history) : migration.history[k].status = "applied"}

\* entry k is not the one getLastAppliedMigration() returns
NotLastApplied(k) ==
  \/ getLastAppliedMigration(migration.history) = Undefined
  \/ getLastAppliedMigration(migration.history)[1].id # migration.history[k].id

\* C28: after a successful rollbackLastMigration one migration that was
\* applied is 'pending' and is not returned by getLastAppliedMigration, and
\* it is one that was applied last: no migration still applied has a later
\* appliedAt, so repeated successful rollbacks undo the applied migrations in
\* reverse order of appliedAt; every other entry is as it was. A rollback
\* that does not succeed, its provider call reporting failure included,
\* leaves the history unchanged. The history never holds two entries with
\* the same id.
C28_RollbackWalksBackwards ==
  /\ deployment.op = "rollbackLastMigration" /\ deployment.results[1].success
     => /\ Cardinality(RolledBack) = 1
        /\ Len(migration.history) = Len(deployment.historyBefore)
        /\ \A k \in RolledBack :
             /\ NotLastApplied(k)
             /\ \A j \in AppliedNow :
                  migration.history[j].appliedAt <= migration.history[k].appliedAt
             /\ \A j \in 1..Len(migration.history) :
                  j # k => migration.history[j] = deployment.historyBefore[j]
  /\ deployment.op = "rollbackLastMigration" /\ ~deployment.results[1].success
     => migration.history = deployment.historyBefore
  /\ \A i, j \in 1..Len(migration.history) :
       i # j => migration.history[i].id # migration.history[j].id

\* two migrations applied at different times were rolled back one after the
\* other, the later one first
C28_TwoRolledBackInTurn ==
  /\ deployment.op = "rollbackLastMigration"
  /\ deployment.results[1].success
  /\ \E i, j \in 1..Len(migration.history) :
       /\ migration.history[i].appliedAt < migration.history[j].appliedAt
       /\ migration.history[i].status = "pending"
       /\ deployment.historyBefore[i].status = "applied"
       /\ deployment.historyBefore[j].status = "pending"

(***************************************************************************)
(* The diagram: a schema is parsed and loaded, tables are selected, added  *)
(* and removed, and the diagram is cleared                                 *)
(***************************************************************************)
\* the inputs parsed: users and posts, with the inferred relationship
\* posts.user_id to users.id; and the table logs alone, whose user_id
\* REFERENCES a table accounts that the input does not declare
DiagramInputs == {EndToEndSQL, Statements[5]}

\* the tables added: users, which EndToEndSQL declares too, and tags
AddedTables ==
  {[name |-> name,
    fields |-> <<[name |-> "id", type |-> "INT", nullable |-> FALSE, primaryKey |-> TRUE,
                  foreignKey |-> Undefined, defaultValue |-> Undefined]>>] :
     name \in {"users", "tags"}}

\* the names selected and removed; no table is named ghost
TableNames == {"users", "posts", "ghost"}

NextDiagram ==
  \/ \E text \in DiagramInputs : calls = 0 /\ ParseSQL(text)
  \/ \E preservePositions \in BOOLEAN : UpdateFromSchema(preservePositions)
  \/ \E tableName \in TableNames : SelectTable(Some(tableName))
  \/ SelectTable(Undefined)
  \/ \E table \in AddedTables : AddTable(table)
  \/ \E tableName \in TableNames : RemoveTable(tableName)
  \/ ClearDiagram

SpecDiagram == Init /\ [][NextDiagram]_vars

(***************************************************************************)
(* C29: the selected table                                                 *)
(***************************************************************************)
\* the names of the tables of the diagram
PresentTables == {diagram.tables[t].name : t \in 1..Len(diagram.tables)}

\* C29: whatever selectTable, addTable, removeTable, updateFromSchema and
\* clearDiagram calls were made, getSelectedTable() is null or the name of a
\* table of the diagram, and the value last delivered to the selection
\* listener is getSelectedTable().
C29_SelectionIsValid ==
  /\ selection.selectedTableName # Undefined
     => selection.selectedTableName[1] \in PresentTables
  /\ selection.notified => selection.delivered = selection.selectedTableName

\* a table of the diagram was selected and then removed
C29_SelectedTableRemoved ==
  /\ selection.notified
  /\ selection.delivered = Some("users")
  /\ selection.selectedTableName = Some("users")
  /\ "posts" \in PresentTables
  /\ "users" \notin PresentTables

(***************************************************************************)
(* C30: the relationships of the diagram                                   *)
(***************************************************************************)
\* the relationships of the list that point to / start from a table
Incoming(name) ==
  {r \in 1..Len(diagram.relationships) : diagram.relationships[r].toTable = name}

Outgoing(name) ==
  {r \in 1..Len(diagram.relationships) : diagram.relationships[r].fromTable = name}

\* C30: whatever updateFromSchema calls with the output of the parser,
\* addTable and removeTable calls were made, every relationship of the
\* diagram has its fromTable and its toTable among the tables of the
\* diagram, and the counters relationships.incoming and
\* relationships.outgoing of each table are the numbers of relationships of
\* the list that point to and start from it.
C30_RelationshipsAreConsistent ==
  /\ \A r \in 1..Len(diagram.relationships) :
       /\ diagram.relationships[r].fromTable \in PresentTables
       /\ diagram.relationships[r].toTable \in PresentTables
  /\ \A t \in 1..Len(diagram.tables) :
       /\ diagram.tables[t].relationships.incoming
            = Cardinality(Incoming(diagram.tables[t].name))
       /\ diagram.tables[t].relationships.outgoing
            = Cardinality(Outgoing(diagram.tables[t].name))

\* the output of the parser for users and posts was loaded and the table
\* posts, from which the one relationship starts, was removed
C30_ReferencingTableRemoved ==
  /\ sql = EndToEndSQL
  /\ PresentTables = {"users"}
  /\ diagram.relationships = <<>>
  /\ loaded = ""
====
